---- MODULE Spec2Model ----
(***************************************************************************)
(* Model of the IPv6 network arithmetic of ipv6tools: IPv6Network          *)
(* (address.py) and IPv6SubnetCalculator (subnet.py).  Both classes wrap   *)
(* an ipaddress.IPv6Network; the operations of the standard library that   *)
(* they call are modelled by what the library computes.                    *)
(*                                                                         *)
(* An address is a natural number of AddrBits bits (128 in the program,    *)
(* scaled down here); a network is a record [base, prefix].                *)
(*                                                                         *)
(* The address texts of IPv6Address (address.py), compress_address and     *)
(* expand_address (utils.py) and the validators (validator.py) are         *)
(* modelled at full width: a text is its characters, a value its eight     *)
(* groups of 16 bits.                                                      *)
(***************************************************************************)
EXTENDS Integers, Sequences, FiniteSets, TLC

\* Width of an address in bits (128 in the program, scaled down).
AddrBits == 3

\* Longest list of other networks handed to get_summary_address.
MaxOthers == 1

\* Largest count a department asks for in recommend_allocation.
MaxCount == 2

VARIABLES
    network,   \* the receiver's wrapped network (self.network / self._network)
    text,      \* the address text the caller holds, None in network runs
    ipv6address,   \* the IPv6Address object built from it, None while there is none
    pc,        \* "idle": no call in progress; "done": a call has returned;
               \* "scan_ports", "shutdown": scan_ports is under way
    op,        \* name of the last operation called
    args,      \* its arguments
    result,    \* [err, val]: err = "none" and the value, or the exception
    futures,   \* scan_ports: one future per submitted scan, in submission order
    results    \* scan_ports: the results gathered so far, in completion order

vars == <<network, text, ipv6address, pc, op, args, result, futures, results>>

RECURSIVE Pow2(_)
Pow2(n) == IF n <= 0 THEN 1 ELSE 2 * Pow2(n - 1)

Min(a, b) == IF a <= b THEN a ELSE b

AllOnes == Pow2(AddrBits) - 1

Addresses == 0 .. AllOnes

Prefixes == 0 .. AddrBits

Net(b, p) == [base |-> b, prefix |-> p]

\* int(hostmask) + 1: the number of addresses of a block of prefix p
BlockSize(p) == Pow2(AddrBits - p)

num_addresses(n) == BlockSize(n.prefix)

\* a & netmask(p): the address with all bits beyond the prefix cleared
MaskTo(a, p) == (a \div BlockSize(p)) * BlockSize(p)

network_address(n) == n.base

broadcast_address(n) == n.base + BlockSize(n.prefix) - 1

\* A network text "addr/prefix": the address value written and the prefix.
\* A prefix above AddrBits is text the library rejects (NetmaskValueError).
NetText(a, p) == [addr |-> a, prefix |-> p]

ValidNetTexts == { NetText(a, p) : a \in Addresses, p \in Prefixes }

BadNetText == NetText(0, AddrBits + 1)

NetTexts == ValidNetTexts \cup {BadNetText}

IsValidNetText(t) == t.prefix \in Prefixes /\ t.addr \in Addresses

\* ipaddress.IPv6Network(text, strict=False): host bits are masked away
NetworkNonStrict(t) == Net(MaskTo(t.addr, t.prefix), t.prefix)

Networks == { NetworkNonStrict(t) : t \in ValidNetTexts }

\* Results of a call
Ok(v) == [err |-> "none", val |-> v]

ValueError == [err |-> "ValueError", val |-> <<>>]

NoArgs == <<>>

\* SubnetInfo(...) as built from a library network
SubnetInfoOf(n) ==
    [ network_address |-> network_address(n),
      first_address   |-> network_address(n),
      last_address    |-> broadcast_address(n),
      prefix_length   |-> n.prefix,
      num_addresses   |-> num_addresses(n) ]

InfoList(s) == [ i \in 1 .. Len(s) |-> SubnetInfoOf(s[i]) ]

\* math.ceil(math.log2(n)) for n >= 1: the least b with 2^b >= n
RECURSIVE CeilLog2From(_, _)
CeilLog2From(n, b) == IF Pow2(b) >= n THEN b ELSE CeilLog2From(n, b + 1)

CeilLog2(n) == CeilLog2From(n, 0)

\* ipaddress: network.subnets(prefixlen_diff=d), consumed into a list
LibSubnets(n, d) ==
    IF n.prefix = AddrBits THEN Ok(<<n>>)
    ELSE IF d < 0 THEN ValueError
    ELSE IF n.prefix + d > AddrBits THEN ValueError
    ELSE LET step == BlockSize(n.prefix) \div Pow2(d)
         IN  Ok([ i \in 1 .. Pow2(d) |-> Net(n.base + (i - 1) * step, n.prefix + d) ])

\* ipaddress: network.supernet(prefixlen_diff=d)
LibSupernet(n, d) ==
    IF n.prefix = 0 THEN Ok(n)
    ELSE IF n.prefix - d < 0 THEN ValueError
    ELSE IF d < 0 THEN ValueError   \* netmask << d: negative shift count
    ELSE Ok(Net(MaskTo(n.base, n.prefix - d), n.prefix - d))

\* ipaddress: addr in network
LibContains(n, a) == MaskTo(a, n.prefix) = n.base

\* ipaddress: a.overlaps(b), four membership tests
LibOverlaps(a, b) ==
    \/ LibContains(b, network_address(a))
    \/ LibContains(b, broadcast_address(a))
    \/ LibContains(a, network_address(b))
    \/ LibContains(a, broadcast_address(b))

\* The two subclasses of ValueError the library raises for text it rejects
AddressValueError == [err |-> "AddressValueError", val |-> <<>>]

NetmaskValueError == [err |-> "NetmaskValueError", val |-> <<>>]

\* The prefix field of a network text that holds no '/': str.split('/')
\* yields one part only
NoSlash == -1

\* ipaddress.IPv6Network(text, strict): a text without '/' gets the prefix
\* max_prefixlen; host bits raise a plain ValueError when strict and are
\* masked away otherwise
LibIPv6Network(t, strict) ==
    IF t.addr \notin Addresses THEN AddressValueError
    ELSE LET p == IF t.prefix = NoSlash THEN AddrBits ELSE t.prefix
         IN  IF p \notin Prefixes THEN NetmaskValueError
             ELSE IF MaskTo(t.addr, p) # t.addr
                  THEN IF strict THEN ValueError ELSE Ok(Net(MaskTo(t.addr, p), p))
                  ELSE Ok(Net(t.addr, p))

\* An address text: the value its groups denote (NotAnAddress for text that
\* is no address) and the parts that follow each '%' of the text.
NotAnAddress == -1

AddrText(a, z) == [addr |-> a, zones |-> z]

\* no '%', "%eth0", "%" with nothing after it, "%a%b"
ZoneSuffixes == { <<>>, <<"eth0">>, <<"">>, <<"a", "b">> }

AddrTexts == { AddrText(a, z) : a \in Addresses \cup {NotAnAddress}, z \in ZoneSuffixes }

\* text.split('%')[0] handed to ipaddress.IPv6Address: the value, or the
\* AddressValueError of text that is no address
ParseWithoutZone(t) ==
    IF t.addr \in Addresses THEN Ok(t.addr) ELSE ValueError

(***************************************************************************)
(* IPv6Network (address.py)                                                *)
(***************************************************************************)

\* IPv6Network.subnets(prefixlen_diff)
subnets(n, d) == LibSubnets(n, d)

\* IPv6Network.supernet(prefixlen_diff)
supernet(n, d) == LibSupernet(n, d)

\* IPv6Network.contains(address)
contains(n, address) ==
    LET addr == ParseWithoutZone(address)
    IN  IF addr.err # "none" THEN Ok(FALSE) ELSE Ok(LibContains(n, addr.val))

\* IPv6Address(text): the object, with _addr and zone_id, or ValueError
IPv6AddressOf(t) ==
    IF t.addr \in Addresses
    THEN Ok([_addr |-> t.addr, zone_id |-> t.zones])
    ELSE ValueError

\* IPv6Network.__contains__(address): address is an IPv6Address object, a
\* str, or anything else
in_operator(n, kind, address) ==
    IF kind = "IPv6Address" THEN Ok(LibContains(n, address._addr))
    ELSE IF kind = "str" THEN contains(n, address)
    ELSE Ok(FALSE)

\* IPv6Network.__init__ taking the text in non-strict mode whatever it is told
IPv6Network_init_NeverStrict(t, strict) ==
    LET r == LibIPv6Network(t, FALSE)
    IN  IF r.err \in {"AddressValueError", "NetmaskValueError"} THEN ValueError ELSE r

\* IPv6Network.__init__(network, strict): the two library errors are raised
\* again as ValueError, any other outcome is passed on
IPv6Network_init(t, strict) ==
    LET r == LibIPv6Network(t, strict)
    IN  IF r.err \in {"AddressValueError", "NetmaskValueError"} THEN ValueError ELSE r

\* IPv6Network.overlaps(other)
overlaps(n, other) == Ok(LibOverlaps(n, other))

(***************************************************************************)
(* IPv6SubnetCalculator (subnet.py)                                        *)
(***************************************************************************)

\* IPv6SubnetCalculator.__init__(network)
IPv6SubnetCalculator_init(t) ==
    LET r == LibIPv6Network(t, FALSE)
    IN  IF r.err \in {"AddressValueError", "NetmaskValueError"} THEN ValueError ELSE r

\* IPv6SubnetCalculator.get_info()
get_info(n) == Ok(SubnetInfoOf(n))

\* overlaps_with parsing the other network in strict mode
overlaps_with_Strict(n, other_network) ==
    LET other == LibIPv6Network(other_network, TRUE)
    IN  IF other.err \in {"AddressValueError", "NetmaskValueError"} THEN Ok(FALSE)
        ELSE IF other.err # "none" THEN other
        ELSE Ok(LibOverlaps(n, other.val))

\* IPv6SubnetCalculator.overlaps_with(other_network)
overlaps_with(n, other_network) ==
    LET other == LibIPv6Network(other_network, FALSE)
    IN  IF other.err \in {"AddressValueError", "NetmaskValueError"} THEN Ok(FALSE)
        ELSE IF other.err # "none" THEN other
        ELSE Ok(LibOverlaps(n, other.val))

\* contains_address handing the text to the parser with its zone suffix
contains_address_KeepsZone(n, address) ==
    LET addr == IF address.zones # <<>> THEN ValueError ELSE ParseWithoutZone(address)
    IN  IF addr.err # "none" THEN Ok(FALSE) ELSE Ok(LibContains(n, addr.val))

\* IPv6SubnetCalculator.contains_address(address)
contains_address(n, address) ==
    LET addr == ParseWithoutZone(address)
    IN  IF addr.err # "none" THEN Ok(FALSE) ELSE Ok(LibContains(n, addr.val))

SubSeqFirst(s, k) == [ i \in 1 .. Min(k, Len(s)) |-> s[i] ]

\* divide_into_subnets without the [:num_subnets] slice
divide_into_subnets_NoSlice(n, num_subnets) ==
    IF num_subnets < 1 THEN ValueError
    ELSE LET bits_needed == CeilLog2(num_subnets)
             new_prefix  == n.prefix + bits_needed
         IN  IF new_prefix > AddrBits THEN ValueError
             ELSE LET all == LibSubnets(n, bits_needed)
                  IN  IF all.err # "none" THEN all ELSE Ok(InfoList(all.val))

\* IPv6SubnetCalculator.divide_into_subnets(num_subnets)
divide_into_subnets(n, num_subnets) ==
    IF num_subnets < 1 THEN ValueError
    ELSE LET bits_needed == CeilLog2(num_subnets)
             new_prefix  == n.prefix + bits_needed
         IN  IF new_prefix > AddrBits THEN ValueError
             ELSE LET all == LibSubnets(n, bits_needed)
                  IN  IF all.err # "none" THEN all
                      ELSE Ok(InfoList(SubSeqFirst(all.val, num_subnets)))

\* divide_by_prefix with prefixlen_diff one too small
divide_by_prefix_OffByOne(n, new_prefix) ==
    IF new_prefix <= n.prefix THEN ValueError
    ELSE IF new_prefix > AddrBits THEN ValueError
    ELSE LET all == LibSubnets(n, new_prefix - n.prefix - 1)
         IN  IF all.err # "none" THEN all ELSE Ok(InfoList(all.val))

\* divide_by_prefix accepting the current prefix (< for <=)
divide_by_prefix_LaxGuard(n, new_prefix) ==
    IF new_prefix < n.prefix THEN ValueError
    ELSE IF new_prefix > AddrBits THEN ValueError
    ELSE LET all == LibSubnets(n, new_prefix - n.prefix)
         IN  IF all.err # "none" THEN all ELSE Ok(InfoList(all.val))

\* IPv6SubnetCalculator.divide_by_prefix(new_prefix)
divide_by_prefix(n, new_prefix) ==
    IF new_prefix <= n.prefix THEN ValueError
    ELSE IF new_prefix > AddrBits THEN ValueError
    ELSE LET all == LibSubnets(n, new_prefix - n.prefix)
         IN  IF all.err # "none" THEN all ELSE Ok(InfoList(all.val))

\* IPv6SubnetCalculator.get_supernet(new_prefix)
get_supernet(n, new_prefix) ==
    IF new_prefix >= n.prefix THEN ValueError
    ELSE IF new_prefix < 0 THEN ValueError
    ELSE LET s == LibSupernet(n, n.prefix - new_prefix)
         IN  IF s.err # "none" THEN s ELSE Ok(SubnetInfoOf(s.val))

(***************************************************************************)
(* ipaddress.collapse_addresses, as get_summary_address uses it            *)
(***************************************************************************)

\* network ordering (__lt__): by network address, then by netmask
NetLess(a, b) == a.base < b.base \/ (a.base = b.base /\ a.prefix < b.prefix)

\* sorted(S) for a set of networks
RECURSIVE SortNets(_)
SortNets(S) ==
    IF S = {} THEN <<>>
    ELSE LET m == CHOOSE x \in S : \A y \in S : x = y \/ NetLess(x, y)
         IN  <<m>> \o SortNets(S \ {m})

\* sorted(S) for a set of addresses
RECURSIVE SortInts(_)
SortInts(S) ==
    IF S = {} THEN <<>>
    ELSE LET m == CHOOSE x \in S : \A y \in S : x <= y
         IN  <<m>> \o SortInts(S \ {m})

\* _count_righthand_zero_bits(number, bits)
RECURSIVE TrailingZeros(_, _)
TrailingZeros(number, bits) ==
    IF number = 0 \/ bits = 0 THEN bits
    ELSE IF number % 2 = 1 THEN 0
    ELSE Min(bits, 1 + TrailingZeros(number \div 2, bits - 1))

\* n.bit_length() - 1 for n >= 1
RECURSIVE FloorLog2(_)
FloorLog2(n) == IF n <= 1 THEN 0 ELSE 1 + FloorLog2(n \div 2)

\* summarize_address_range(first, last)
RECURSIVE summarize_address_range(_, _)
summarize_address_range(first_int, last_int) ==
    IF first_int > last_int THEN <<>>
    ELSE LET nbits == Min(TrailingZeros(first_int, AddrBits),
                          FloorLog2(last_int - first_int + 1))
             net   == Net(first_int, AddrBits - nbits)
             next  == first_int + Pow2(nbits)
         IN  IF next - 1 = AllOnes THEN <<net>>
             ELSE <<net>> \o summarize_address_range(next, last_int)

\* _find_address_range(ips) followed by summarize_address_range of each run
RECURSIVE SummarizeRuns(_, _, _)
SummarizeRuns(ips, first, last) ==
    IF ips = <<>> THEN summarize_address_range(first, last)
    ELSE IF Head(ips) # last + 1
         THEN summarize_address_range(first, last)
                 \o SummarizeRuns(Tail(ips), Head(ips), Head(ips))
         ELSE SummarizeRuns(Tail(ips), first, Head(ips))

\* the first loop of _collapse_addresses_internal: to_merge is a stack,
\* subnets_dict the dict from supernet to network, held as a set of [k, v]
RECURSIVE MergeLoop(_, _)
MergeLoop(to_merge, subnets_dict) ==
    IF to_merge = <<>> THEN subnets_dict
    ELSE LET net      == to_merge[Len(to_merge)]
             rest     == SubSeq(to_merge, 1, Len(to_merge) - 1)
             sup      == LibSupernet(net, 1).val
             existing == { e \in subnets_dict : e.k = sup }
         IN  IF existing = {}
             THEN MergeLoop(rest, subnets_dict \cup {[k |-> sup, v |-> net]})
             ELSE IF (CHOOSE e \in existing : TRUE).v # net
                  THEN MergeLoop(Append(rest, sup), subnets_dict \ existing)
                  ELSE MergeLoop(rest, subnets_dict)

\* the second loop: skip the networks an earlier one subsumes
RECURSIVE SkipSubsumed(_, _, _)
SkipSubsumed(s, hasLast, last) ==
    IF s = <<>> THEN <<>>
    ELSE IF hasLast /\ broadcast_address(last) >= broadcast_address(Head(s))
         THEN SkipSubsumed(Tail(s), hasLast, last)
         ELSE <<Head(s)>> \o SkipSubsumed(Tail(s), TRUE, Head(s))

collapse_internal(addresses) ==
    LET subnets_dict == MergeLoop(addresses, {})
    IN  SkipSubsumed(SortNets({ e.v : e \in subnets_dict }), FALSE, Net(0, 0))

IsHostNet(n) == n.prefix = AddrBits

IsNotHostNet(n) == n.prefix # AddrBits

\* collapse_addresses(addresses) for a list of networks
collapse_addresses(addresses) ==
    LET ipset == { addresses[i].base : i \in { j \in 1 .. Len(addresses) : IsHostNet(addresses[j]) } }
        ips   == SortInts(ipset)
        nets  == SelectSeq(addresses, IsNotHostNet)
        addrs == IF ips = <<>> THEN <<>>
                 ELSE SummarizeRuns(Tail(ips), Head(ips), Head(ips))
    IN  collapse_internal(addrs \o nets)

\* min(...) and max(...) over a non-empty set of numbers
SetMin(S) == CHOOSE x \in S : \A y \in S : x <= y

SetMax(S) == CHOOSE x \in S : \A y \in S : x >= y

\* None, as get_summary_address may return it
None == [base |-> -1, prefix |-> -1]

\* the scan with its comparison turned around (<= for >=)
RECURSIVE ScanPrefix_Flipped(_, _, _)
ScanPrefix_Flipped(min_addr, max_addr, prefix_len) ==
    IF prefix_len > AddrBits THEN None
    ELSE LET test_network == NetworkNonStrict(NetText(min_addr, prefix_len))
         IN  IF broadcast_address(test_network) <= max_addr
             THEN test_network
             ELSE ScanPrefix_Flipped(min_addr, max_addr, prefix_len + 1)

\* for prefix_len in range(0, 129): the first test network reaching max_addr
RECURSIVE ScanPrefix(_, _, _)
ScanPrefix(min_addr, max_addr, prefix_len) ==
    IF prefix_len > AddrBits THEN None
    ELSE LET test_network == NetworkNonStrict(NetText(min_addr, prefix_len))
         IN  IF broadcast_address(test_network) >= max_addr
             THEN test_network
             ELSE ScanPrefix(min_addr, max_addr, prefix_len + 1)

AllValid(other_networks) ==
    \A i \in 1 .. Len(other_networks) : IsValidNetText(other_networks[i])

\* IPv6SubnetCalculator.get_summary_address(other_networks)
get_summary_address(n, other_networks) ==
    IF ~AllValid(other_networks) THEN ValueError
    ELSE LET networks  == <<n>> \o [ i \in 1 .. Len(other_networks) |->
                                        NetworkNonStrict(other_networks[i]) ]
             collapsed == collapse_addresses(networks)
         IN  IF Len(collapsed) = 1 THEN Ok(collapsed[1])
             ELSE LET min_addr == SetMin({ network_address(networks[i]) : i \in 1 .. Len(networks) })
                      max_addr == SetMax({ broadcast_address(networks[i]) : i \in 1 .. Len(networks) })
                  IN  Ok(ScanPrefix(min_addr, max_addr, 0))

\* The caller's list as get_summary_address leaves it: the networks are
\* gathered in a list of the call's own, other_networks is only read
get_summary_address_leaves(n, other_networks) == other_networks

(***************************************************************************)
(* recommend_allocation                                                    *)
(***************************************************************************)

\* A name is a string, held as its sequence of code points; Python orders
\* strings lexicographically by code point.
RECURSIVE StrLess(_, _)
StrLess(a, b) ==
    IF b = <<>> THEN FALSE
    ELSE IF a = <<>> THEN TRUE
    ELSE IF Head(a) # Head(b) THEN Head(a) < Head(b)
    ELSE StrLess(Tail(a), Tail(b))

\* sorted(department_counts.items()): the dict is a sequence of
\* [name, count] in insertion order, with distinct names
RECURSIVE SortItems(_)
SortItems(S) ==
    IF S = {} THEN <<>>
    ELSE LET m == CHOOSE x \in S : \A y \in S :
                      x = y \/ StrLess(x.name, y.name)
                           \/ (x.name = y.name /\ x.count < y.count)
         IN  <<m>> \o SortItems(S \ {m})

\* the items taken in insertion order, without sorted()
SortedItems_InsertionOrder(department_counts) == department_counts

SortedItems(department_counts) ==
    SortItems({ department_counts[i] : i \in 1 .. Len(department_counts) })

RECURSIVE SumCounts(_)
SumCounts(items) ==
    IF items = <<>> THEN 0 ELSE Head(items).count + SumCounts(Tail(items))

\* the loop without "current_index += 1"
RECURSIVE AllocateLoop_NoAdvance(_, _, _, _)
AllocateLoop_NoAdvance(items, all_subnets, current_index, allocation) ==
    IF items = <<>> THEN Ok(allocation)
    ELSE LET dept_name == Head(items).name
             count     == Head(items).count
         IN  IF current_index + count > Len(all_subnets) THEN ValueError
             ELSE LET taken == IF count > 0 THEN count ELSE 0
                      dept_subnets == [ i \in 1 .. taken |->
                                          SubnetInfoOf(all_subnets[current_index + 1]) ]
                  IN  AllocateLoop_NoAdvance(Tail(items), all_subnets, current_index,
                                   Append(allocation,
                                          [name |-> dept_name, subnets |-> dept_subnets]))

\* the loop "for dept_name, count in sorted(...)"
RECURSIVE AllocateLoop(_, _, _, _)
AllocateLoop(items, all_subnets, current_index, allocation) ==
    IF items = <<>> THEN Ok(allocation)
    ELSE LET dept_name == Head(items).name
             count     == Head(items).count
         IN  IF current_index + count > Len(all_subnets) THEN ValueError
             ELSE LET taken == IF count > 0 THEN count ELSE 0
                      dept_subnets == [ i \in 1 .. taken |->
                                          SubnetInfoOf(all_subnets[current_index + i]) ]
                  IN  AllocateLoop(Tail(items), all_subnets, current_index + taken,
                                   Append(allocation,
                                          [name |-> dept_name, subnets |-> dept_subnets]))

\* recommend_allocation rounding log2(total_needed) down
recommend_allocation_RoundsDown(total_prefix, department_counts) ==
    IF ~IsValidNetText(total_prefix) THEN ValueError
    ELSE LET parent       == NetworkNonStrict(total_prefix)
             total_needed == SumCounts(department_counts)
         IN  IF total_needed < 1 THEN ValueError
             ELSE LET bits_needed   == FloorLog2(total_needed)
                      subnet_prefix == parent.prefix + bits_needed
                  IN  IF subnet_prefix > AddrBits THEN ValueError
                      ELSE LET all == LibSubnets(parent, bits_needed)
                           IN  IF all.err # "none" THEN all
                               ELSE AllocateLoop(SortedItems(department_counts),
                                                 all.val, 0, <<>>)

\* IPv6SubnetCalculator.recommend_allocation(total_prefix, department_counts)
recommend_allocation(total_prefix, department_counts) ==
    IF ~IsValidNetText(total_prefix) THEN ValueError
    ELSE LET parent       == NetworkNonStrict(total_prefix)
             total_needed == SumCounts(department_counts)
         IN  IF total_needed < 1 THEN ValueError   \* math.log2: math domain error
             ELSE LET bits_needed   == CeilLog2(total_needed)
                      subnet_prefix == parent.prefix + bits_needed
                  IN  IF subnet_prefix > AddrBits THEN ValueError
                      ELSE LET all == LibSubnets(parent, bits_needed)
                           IN  IF all.err # "none" THEN all
                               ELSE AllocateLoop(SortedItems(department_counts),
                                                 all.val, 0, <<>>)

\* The caller's mapping as recommend_allocation leaves it: sum() and
\* sorted() read department_counts, the plan is a mapping of the call's own
recommend_allocation_leaves(total_prefix, department_counts) == department_counts

(***************************************************************************)
(* Address texts.  At full width an address value is its eight groups of   *)
(* 16 bits, most significant first, and a text is the sequence of its      *)
(* characters.  The library functions that parse and format addresses are  *)
(* modelled step by step on such sequences.                                *)
(***************************************************************************)

Range(s) == { s[i] : i \in 1 .. Len(s) }

\* position of the first c in s
Find(s, c) == CHOOSE i \in 1 .. Len(s) : s[i] = c /\ \A j \in 1 .. i - 1 : s[j] # c

\* s.split(c)
RECURSIVE Split(_, _)
Split(s, c) ==
    IF c \notin Range(s) THEN <<s>>
    ELSE <<SubSeq(s, 1, Find(s, c) - 1)>> \o Split(SubSeq(s, Find(s, c) + 1, Len(s)), c)

\* s.split(c, 1)
SplitOnce(s, c) ==
    IF c \notin Range(s) THEN <<s>>
    ELSE <<SubSeq(s, 1, Find(s, c) - 1), SubSeq(s, Find(s, c) + 1, Len(s))>>

\* sep.join(parts)
RECURSIVE Join(_, _)
Join(parts, sep) ==
    IF parts = <<>> THEN <<>>
    ELSE IF Len(parts) = 1 THEN parts[1]
    ELSE parts[1] \o sep \o Join(Tail(parts), sep)

\* the digits '%x' writes, by value
LowerHex == <<"0", "1", "2", "3", "4", "5", "6", "7", "8", "9", "a", "b", "c", "d", "e", "f">>

UpperHex == <<"0", "1", "2", "3", "4", "5", "6", "7", "8", "9", "A", "B", "C", "D", "E", "F">>

\* ipaddress: _HEX_DIGITS
HEX_DIGITS == Range(LowerHex) \cup Range(UpperHex)

\* ipaddress: _HEXTET_COUNT
HEXTET_COUNT == 8

\* value of one hex digit
HexValue(c) == CHOOSE v \in 0 .. 15 : LowerHex[v + 1] = c \/ UpperHex[v + 1] = c

\* int(s, 16) of a non-empty text of hex digits
RECURSIVE HexInt(_)
HexInt(s) ==
    IF Len(s) = 1 THEN HexValue(s[1])
    ELSE 16 * HexInt(SubSeq(s, 1, Len(s) - 1)) + HexValue(s[Len(s)])

\* '%x' % v
RECURSIVE FormatHex(_)
FormatHex(v) ==
    IF v < 16 THEN <<LowerHex[v + 1]>>
    ELSE FormatHex(v \div 16) \o <<LowerHex[(v % 16) + 1]>>

\* '%04x' % v
RECURSIVE ZeroPad(_, _)
ZeroPad(s, width) == IF Len(s) >= width THEN s ELSE ZeroPad(<<"0">> \o s, width)

\* '%032x' % ip_int: the eight groups, four digits each
RECURSIVE Hex032(_)
Hex032(groups) ==
    IF groups = <<>> THEN <<>>
    ELSE ZeroPad(FormatHex(groups[1]), 4) \o Hex032(Tail(groups))

\* hex_str[x:x+4] for x in range(0, 32, 4)
Slices(hex_str) == [ i \in 1 .. HEXTET_COUNT |-> SubSeq(hex_str, 4 * (i - 1) + 1, 4 * i) ]

\* ipaddress: _parse_hextet(hextet_str); the empty text fails in int('', 16)
parse_hextet(hextet_str) ==
    IF ~(Range(hextet_str) \subseteq HEX_DIGITS) THEN ValueError
    ELSE IF Len(hextet_str) > 4 THEN ValueError
    ELSE IF hextet_str = <<>> THEN ValueError
    ELSE Ok(HexInt(hextet_str))

\* the groups read from parts_hi leading parts, parts_skipped zero groups
\* and parts_lo trailing parts; any part that is no hextet fails the whole
ParseParts(parts, parts_hi, parts_lo, parts_skipped) ==
    LET n == Len(parts)
        used == [ i \in 1 .. (parts_hi + parts_lo) |->
                    IF i <= parts_hi THEN parts[i] ELSE parts[n - parts_lo + (i - parts_hi)] ]
    IN  IF \E i \in 1 .. Len(used) : parse_hextet(used[i]).err # "none"
        THEN AddressValueError
        ELSE Ok([ i \in 1 .. (parts_hi + parts_skipped + parts_lo) |->
                    IF i <= parts_hi THEN parse_hextet(parts[i]).val
                    ELSE IF i <= parts_hi + parts_skipped THEN 0
                    ELSE parse_hextet(parts[n - parts_lo + (i - parts_hi - parts_skipped)]).val ])

\* ipaddress: _ip_int_from_string(ip_str).  The texts of this model hold no
\* '.', so the branch for an IPv4-style suffix is never entered.
ip_int_from_string(ip_str) ==
    IF ip_str = <<>> THEN AddressValueError
    ELSE
    LET parts == Split(ip_str, ":")
        n == Len(parts)
        skips == { i \in 1 .. n - 2 : parts[i + 1] = <<>> }
    IN  IF n < 3 THEN AddressValueError
        ELSE IF n > HEXTET_COUNT + 1 THEN AddressValueError
        ELSE IF Cardinality(skips) > 1 THEN AddressValueError
        ELSE IF skips # {}
        THEN LET skip_index == CHOOSE i \in skips : TRUE
                 parts_hi == IF parts[1] = <<>> THEN skip_index - 1 ELSE skip_index
                 parts_lo == IF parts[n] = <<>> THEN n - skip_index - 2
                             ELSE n - skip_index - 1
                 parts_skipped == HEXTET_COUNT - (parts_hi + parts_lo)
             IN  IF parts[1] = <<>> /\ parts_hi # 0 THEN AddressValueError
                 ELSE IF parts[n] = <<>> /\ parts_lo # 0 THEN AddressValueError
                 ELSE IF parts_skipped < 1 THEN AddressValueError
                 ELSE ParseParts(parts, parts_hi, parts_lo, parts_skipped)
        ELSE IF n # HEXTET_COUNT THEN AddressValueError
        ELSE IF parts[1] = <<>> \/ parts[n] = <<>> THEN AddressValueError
        ELSE ParseParts(parts, n, 0, 0)

\* the loop of _compress_hextets: <<best_doublecolon_start, best_doublecolon_len>>
\* after the hextets from index on (counted from 0)
RECURSIVE BestDoublecolon(_, _, _, _, _, _)
BestDoublecolon(hextets, index, best_start, best_len, start, len) ==
    IF index = Len(hextets) THEN <<best_start, best_len>>
    ELSE IF hextets[index + 1] = <<"0">>
    THEN LET start2 == IF start = -1 THEN index ELSE start
         IN  IF len + 1 > best_len
             THEN BestDoublecolon(hextets, index + 1, start2, len + 1, start2, len + 1)
             ELSE BestDoublecolon(hextets, index + 1, best_start, best_len, start2, len + 1)
    ELSE BestDoublecolon(hextets, index + 1, best_start, best_len, -1, 0)

\* ipaddress: _compress_hextets(hextets)
compress_hextets(hextets) ==
    LET best == BestDoublecolon(hextets, 0, -1, 0, -1, 0)
        best_start == best[1]
        best_len == best[2]
        best_end == best_start + best_len
        extended == IF best_end = Len(hextets) THEN Append(hextets, <<>>) ELSE hextets
        replaced == SubSeq(extended, 1, best_start) \o << <<>> >>
                      \o SubSeq(extended, best_end + 1, Len(extended))
    IN  IF best_len > 1
        THEN IF best_start = 0 THEN << <<>> >> \o replaced ELSE replaced
        ELSE hextets

\* ipaddress: _string_from_ip_int(ip_int)
string_from_ip_int(ip_int) ==
    LET hex_str == Hex032(ip_int)
        hextets == [ i \in 1 .. HEXTET_COUNT |-> FormatHex(HexInt(Slices(hex_str)[i])) ]
    IN  Join(compress_hextets(hextets), <<":">>)

\* None where a text is expected (a zone or scope that is absent)
NoText == <<"None">>

\* ipaddress.IPv6Address(text): [_ip, _scope_id], or AddressValueError
LibIPv6Address(addr_str) ==
    IF "/" \in Range(addr_str) THEN AddressValueError
    ELSE LET parts == SplitOnce(addr_str, "%")
             scope_id == IF Len(parts) = 1 THEN NoText ELSE parts[2]
             ip == ip_int_from_string(parts[1])
         IN  IF scope_id = <<>> \/ (scope_id # NoText /\ "%" \in Range(scope_id))
             THEN AddressValueError
             ELSE IF ip.err # "none" THEN AddressValueError
             ELSE Ok([_ip |-> ip.val, _scope_id |-> scope_id])

\* ipaddress: str(addr), which is also addr.compressed
LibStr(addr) ==
    IF addr._scope_id # NoText /\ addr._scope_id # <<>>
    THEN string_from_ip_int(addr._ip) \o <<"%">> \o addr._scope_id
    ELSE string_from_ip_int(addr._ip)

\* ipaddress: addr.exploded, _explode_shorthand_ip_string: str(addr) is
\* parsed again and written with four digits a group
LibExploded(addr) ==
    LET ip_int == ip_int_from_string(LibStr(addr))
    IN  IF ip_int.err # "none" THEN ip_int
        ELSE Ok(Join(Slices(Hex032(ip_int.val)), <<":">>))

\* ipaddress: a == b between two addresses
LibAddressEq(a, b) == a._ip = b._ip /\ a._scope_id = b._scope_id

(***************************************************************************)
(* Network validators (validator.py)                                       *)
(***************************************************************************)

\* The empty network text ""
EmptyNetText == NetText(NotAnAddress - 1, NoSlash)

\* is_valid_ipv6_network(network)
is_valid_ipv6_network(t) ==
    IF t = EmptyNetText THEN Ok(FALSE)
    ELSE Ok(LibIPv6Network(t, FALSE).err = "none")

\* (True, None)
Valid == <<TRUE, "None">>

\* (False, message)
Invalid(message) == <<FALSE, message>>

\* validate_ipv6_network(network)
validate_ipv6_network(t) ==
    IF t = EmptyNetText THEN Ok(Invalid("Network cannot be empty"))
    ELSE IF t.prefix = NoSlash THEN Ok(Invalid("Network must include prefix length"))
    ELSE LET r == LibIPv6Network(t, FALSE)
         IN  IF r.err = "none" THEN Ok(Valid) ELSE Ok(Invalid(r.err))

\* A library network over groups: its network address and prefix length
BlockOf(groups, prefixlen) == [groups |-> groups, prefixlen |-> prefixlen]

\* how many of the prefixlen leading bits fall into group i
BitsInGroup(prefixlen, i) ==
    IF prefixlen - 16 * (i - 1) < 0 THEN 0 ELSE Min(16, prefixlen - 16 * (i - 1))

\* ipaddress: addr in net, ip & netmask == network_address, group by group
LibInBlock(ip, net) ==
    \A i \in 1 .. Len(ip) :
        ip[i] \div Pow2(16 - BitsInGroup(net.prefixlen, i))
            = net.groups[i] \div Pow2(16 - BitsInGroup(net.prefixlen, i))

\* ipaddress: _IPv6Constants._linklocal_network, fe80::/10
linklocal_network == BlockOf(<<65152, 0, 0, 0, 0, 0, 0, 0>>, 10)

\* ipaddress: _IPv6Constants._multicast_network, ff00::/8
multicast_network == BlockOf(<<65280, 0, 0, 0, 0, 0, 0, 0>>, 8)

\* ipaddress: _IPv6Constants._private_networks
private_networks ==
    { BlockOf(<<0, 0, 0, 0, 0, 0, 0, 1>>, 128),        \* ::1/128
      BlockOf(<<0, 0, 0, 0, 0, 0, 0, 0>>, 128),        \* ::/128
      BlockOf(<<0, 0, 0, 0, 0, 65535, 0, 0>>, 96),     \* ::ffff:0:0/96
      BlockOf(<<256, 0, 0, 0, 0, 0, 0, 0>>, 64),       \* 100::/64
      BlockOf(<<8193, 0, 0, 0, 0, 0, 0, 0>>, 23),      \* 2001::/23
      BlockOf(<<8193, 2, 0, 0, 0, 0, 0, 0>>, 48),      \* 2001:2::/48
      BlockOf(<<8193, 3512, 0, 0, 0, 0, 0, 0>>, 32),   \* 2001:db8::/32
      BlockOf(<<8193, 16, 0, 0, 0, 0, 0, 0>>, 28),     \* 2001:10::/28
      BlockOf(<<64512, 0, 0, 0, 0, 0, 0, 0>>, 7),      \* fc00::/7
      BlockOf(<<65152, 0, 0, 0, 0, 0, 0, 0>>, 10) }    \* fe80::/10

\* ipaddress: _IPv6Constants._reserved_networks
reserved_networks ==
    { BlockOf(<<0, 0, 0, 0, 0, 0, 0, 0>>, 8),          \* ::/8
      BlockOf(<<256, 0, 0, 0, 0, 0, 0, 0>>, 8),        \* 100::/8
      BlockOf(<<512, 0, 0, 0, 0, 0, 0, 0>>, 7),        \* 200::/7
      BlockOf(<<1024, 0, 0, 0, 0, 0, 0, 0>>, 6),       \* 400::/6
      BlockOf(<<2048, 0, 0, 0, 0, 0, 0, 0>>, 5),       \* 800::/5
      BlockOf(<<4096, 0, 0, 0, 0, 0, 0, 0>>, 4),       \* 1000::/4
      BlockOf(<<16384, 0, 0, 0, 0, 0, 0, 0>>, 3),      \* 4000::/3
      BlockOf(<<24576, 0, 0, 0, 0, 0, 0, 0>>, 3),      \* 6000::/3
      BlockOf(<<32768, 0, 0, 0, 0, 0, 0, 0>>, 3),      \* 8000::/3
      BlockOf(<<40960, 0, 0, 0, 0, 0, 0, 0>>, 3),      \* a000::/3
      BlockOf(<<49152, 0, 0, 0, 0, 0, 0, 0>>, 3),      \* c000::/3
      BlockOf(<<57344, 0, 0, 0, 0, 0, 0, 0>>, 4),      \* e000::/4
      BlockOf(<<61440, 0, 0, 0, 0, 0, 0, 0>>, 5),      \* f000::/5
      BlockOf(<<63488, 0, 0, 0, 0, 0, 0, 0>>, 6),      \* f800::/6
      BlockOf(<<65024, 0, 0, 0, 0, 0, 0, 0>>, 9) }     \* fe00::/9

\* ipaddress: _IPv4Constants._private_networks, an IPv4 address being its
\* two groups of 16 bits
private_networks_v4 ==
    { BlockOf(<<0, 0>>, 8),            \* 0.0.0.0/8
      BlockOf(<<2560, 0>>, 8),         \* 10.0.0.0/8
      BlockOf(<<32512, 0>>, 8),        \* 127.0.0.0/8
      BlockOf(<<43518, 0>>, 16),       \* 169.254.0.0/16
      BlockOf(<<44048, 0>>, 12),       \* 172.16.0.0/12
      BlockOf(<<49152, 0>>, 29),       \* 192.0.0.0/29
      BlockOf(<<49152, 170>>, 31),     \* 192.0.0.170/31
      BlockOf(<<49152, 512>>, 24),     \* 192.0.2.0/24
      BlockOf(<<49320, 0>>, 16),       \* 192.168.0.0/16
      BlockOf(<<50706, 0>>, 15),       \* 198.18.0.0/15
      BlockOf(<<50739, 25600>>, 24),   \* 198.51.100.0/24
      BlockOf(<<51968, 28928>>, 24),   \* 203.0.113.0/24
      BlockOf(<<61440, 0>>, 4),        \* 240.0.0.0/4
      BlockOf(<<65535, 65535>>, 32) }  \* 255.255.255.255/32

\* ipaddress: addr.ipv4_mapped is not None, (ip >> 32) == 0xFFFF
IsIPv4Mapped(ip) == (\A i \in 1 .. 5 : ip[i] = 0) /\ ip[6] = 65535

\* ipaddress: the predicates of an address
lib_is_loopback(ip) == ip = <<0, 0, 0, 0, 0, 0, 0, 1>>

lib_is_unspecified(ip) == ip = <<0, 0, 0, 0, 0, 0, 0, 0>>

lib_is_link_local(ip) == LibInBlock(ip, linklocal_network)

lib_is_multicast(ip) == LibInBlock(ip, multicast_network)

lib_is_private(ip) ==
    IF IsIPv4Mapped(ip)
    THEN \E net \in private_networks_v4 : LibInBlock(<<ip[7], ip[8]>>, net)
    ELSE \E net \in private_networks : LibInBlock(ip, net)

lib_is_global(ip) == ~lib_is_private(ip)

lib_is_reserved(ip) == \E net \in reserved_networks : LibInBlock(ip, net)

(***************************************************************************)
(* IPv6Address (address.py)                                                *)
(***************************************************************************)

\* IPv6Address.__init__(address): [_addr, zone_id, address], or ValueError
IPv6Address_init(address) ==
    LET parts == SplitOnce(address, "%")
        zone_id == IF "%" \in Range(address) THEN parts[2] ELSE NoText
        addr == LibIPv6Address(parts[1])
    IN  IF addr.err # "none" THEN ValueError
        ELSE Ok([_addr |-> addr.val, zone_id |-> zone_id, address |-> LibStr(addr.val)])

\* IPv6Address.compressed
compressed(self) == Ok(LibStr(self._addr))

\* IPv6Address.exploded handing back the short form
exploded_Short(self) == Ok(LibStr(self._addr))

\* IPv6Address.exploded
exploded(self) == LibExploded(self._addr)

\* IPv6Address.get_address_type()
get_address_type(self) ==
    LET ip == self._addr._ip
    IN  IF lib_is_loopback(ip) THEN Ok("Loopback")
        ELSE IF lib_is_link_local(ip) THEN Ok("Link-Local")
        ELSE IF lib_is_private(ip) THEN Ok("Unique Local (ULA)")
        ELSE IF lib_is_multicast(ip) THEN Ok("Multicast")
        ELSE IF lib_is_global(ip) THEN Ok("Global Unicast")
        ELSE IF lib_is_unspecified(ip) THEN Ok("Unspecified")
        ELSE IF lib_is_reserved(ip) THEN Ok("Reserved")
        ELSE Ok("Unknown")

\* a text that is neither None nor empty
Truthy(s) == s # NoText /\ s # <<>>

\* IPv6Address.__str__ leaving the zone out
IPv6Address_str_NoZone(self) == compressed(self)

\* IPv6Address.__str__
IPv6Address_str(self) ==
    IF Truthy(self.zone_id)
    THEN Ok(compressed(self).val \o <<"%">> \o self.zone_id)
    ELSE compressed(self)

\* IPv6Address.__eq__ comparing the zones as well
IPv6Address_eq_WithZone(self, other) ==
    Ok(LibAddressEq(self._addr, other._addr) /\ self.zone_id = other.zone_id)

\* IPv6Address.__eq__(other), other being an IPv6Address
IPv6Address_eq(self, other) == Ok(LibAddressEq(self._addr, other._addr))

(***************************************************************************)
(* compress_address, expand_address (utils.py)                             *)
(***************************************************************************)

\* compress_address writing the groups without looking for a run of zeros
compress_address_NoDoublecolon(address) ==
    LET parts == SplitOnce(address, "%")
        addr == LibIPv6Address(parts[1])
    IN  IF addr.err # "none" THEN ValueError
        ELSE Ok(Join([ i \in 1 .. HEXTET_COUNT |-> FormatHex(addr.val._ip[i]) ], <<":">>))

\* compress_address writing the zone after a doubled '%'
compress_address_DoubledPercent(address) ==
    LET parts == SplitOnce(address, "%")
        zone_id == IF "%" \in Range(address) THEN parts[2] ELSE NoText
        addr == LibIPv6Address(parts[1])
    IN  IF addr.err # "none" THEN ValueError
        ELSE IF Truthy(zone_id) THEN Ok(LibStr(addr.val) \o <<"%", "%">> \o zone_id)
        ELSE Ok(LibStr(addr.val))

\* compress_address(address)
compress_address(address) ==
    LET parts == SplitOnce(address, "%")
        zone_id == IF "%" \in Range(address) THEN parts[2] ELSE NoText
        addr == LibIPv6Address(parts[1])
    IN  IF addr.err # "none" THEN ValueError
        ELSE IF Truthy(zone_id) THEN Ok(LibStr(addr.val) \o <<"%">> \o zone_id)
        ELSE Ok(LibStr(addr.val))

\* expand_address(address)
expand_address(address) ==
    LET parts == SplitOnce(address, "%")
        zone_id == IF "%" \in Range(address) THEN parts[2] ELSE NoText
        addr == LibIPv6Address(parts[1])
    IN  IF addr.err # "none" THEN ValueError
        ELSE IF LibExploded(addr.val).err # "none" THEN ValueError
        ELSE IF Truthy(zone_id) THEN Ok(LibExploded(addr.val).val \o <<"%">> \o zone_id)
        ELSE Ok(LibExploded(addr.val).val)

(***************************************************************************)
(* mac_to_ipv6_link_local (utils.py)                                       *)
(***************************************************************************)

\* s.replace(old, new), old being one character
RECURSIVE Replace(_, _, _)
Replace(s, old, new) ==
    IF s = <<>> THEN <<>>
    ELSE IF s[1] = old THEN new \o Replace(Tail(s), old, new)
    ELSE <<s[1]>> \o Replace(Tail(s), old, new)

\* c.lower(), for the letters of the texts
LowerChar(c) ==
    IF c \in Range(UpperHex) \ Range(LowerHex) THEN LowerHex[HexValue(c) + 1]
    ELSE IF c = "G" THEN "g"
    ELSE IF c = "X" THEN "x"
    ELSE c

\* s.lower()
RECURSIVE Lower(_)
Lower(s) == IF s = <<>> THEN <<>> ELSE <<LowerChar(s[1])>> \o Lower(Tail(s))

\* the blanks int() skips at both ends
Whitespace == { " " }

\* s.strip()
RECURSIVE Strip(_)
Strip(s) ==
    IF s # <<>> /\ s[1] \in Whitespace THEN Strip(Tail(s))
    ELSE IF s # <<>> /\ s[Len(s)] \in Whitespace THEN Strip(SubSeq(s, 1, Len(s) - 1))
    ELSE s

\* How int(s, 16) reads s: blanks at both ends, a sign, a 0x prefix, then hex
\* digits with single underscores between them.  The value is the sign and
\* the digits; a text that is no such literal fails.
int_literal16(s) ==
    LET t == Strip(s)
        signed == t # <<>> /\ t[1] \in {"+", "-"}
        u == IF signed THEN Tail(t) ELSE t
        prefixed == Len(u) >= 2 /\ u[1] = "0" /\ u[2] \in {"x", "X"}
        v == IF prefixed THEN SubSeq(u, 3, Len(u)) ELSE u
        w == IF prefixed /\ v # <<>> /\ v[1] = "_" THEN Tail(v) ELSE v
    IN  IF w = <<>> THEN ValueError
        ELSE IF ~(Range(w) \subseteq (HEX_DIGITS \cup {"_"})) THEN ValueError
        ELSE IF w[1] = "_" \/ w[Len(w)] = "_" THEN ValueError
        ELSE IF \E i \in 1 .. Len(w) - 1 : w[i] = "_" /\ w[i + 1] = "_" THEN ValueError
        ELSE Ok([negative |-> signed /\ t[1] = "-", digits |-> Replace(w, "_", <<>>)])

\* int(s, 16), for a text of a few digits
int16(s) ==
    IF int_literal16(s).err # "none" THEN ValueError
    ELSE IF int_literal16(s).val.negative THEN Ok(0 - HexInt(int_literal16(s).val.digits))
    ELSE Ok(HexInt(int_literal16(s).val.digits))

\* v ^ 0x02, v not negative
Xor2(v) == IF (v \div 2) % 2 = 1 THEN v - 2 ELSE v + 2

\* mac_to_ipv6_link_local leaving the universal/local bit as it is
mac_to_ipv6_link_local_NoFlip(mac) ==
    LET cleaned == Lower(Replace(Replace(Replace(mac, ":", <<>>), "-", <<>>), ".", <<>>))
        eui64 == SubSeq(cleaned, 1, 6) \o <<"f", "f", "f", "e">> \o SubSeq(cleaned, 7, 12)
    IN  IF Len(cleaned) # 12 THEN ValueError
        ELSE IF int_literal16(cleaned).err # "none" THEN ValueError
        ELSE IF int16(SubSeq(eui64, 1, 2)).err # "none" THEN ValueError
        ELSE compress_address(<<"f", "e", "8", "0", ":", ":">>
                 \o Join([ i \in 1 .. 4 |-> SubSeq(eui64, 4 * (i - 1) + 1, 4 * i) ], <<":">>))

\* mac_to_ipv6_link_local(mac).  The value of int(mac, 16) is not used, only
\* whether it fails; first_octet is int(eui64[:2], 16) ^ 0x02.
mac_to_ipv6_link_local(mac) ==
    LET cleaned == Lower(Replace(Replace(Replace(mac, ":", <<>>), "-", <<>>), ".", <<>>))
        eui64 == SubSeq(cleaned, 1, 6) \o <<"f", "f", "f", "e">> \o SubSeq(cleaned, 7, 12)
        first_octet == int16(SubSeq(eui64, 1, 2))
        flipped == ZeroPad(FormatHex(Xor2(first_octet.val)), 2) \o SubSeq(eui64, 3, 16)
    IN  IF Len(cleaned) # 12 THEN ValueError
        ELSE IF int_literal16(cleaned).err # "none" THEN ValueError
        ELSE IF first_octet.err # "none" THEN ValueError
        ELSE compress_address(<<"f", "e", "8", "0", ":", ":">>
                 \o Join([ i \in 1 .. 4 |-> SubSeq(flipped, 4 * (i - 1) + 1, 4 * i) ], <<":">>))

(***************************************************************************)
(* generate_unique_local, generate_random_ipv6, reverse_pointer (utils.py) *)
(***************************************************************************)

\* generate_unique_local(global_id, subnet_id, interface_id); None is NoText,
\* and token_hex[n] is what secrets.token_hex(n) draws in this call
generate_unique_local(global_id, subnet_id, interface_id, token_hex) ==
    LET g == Replace(Replace(IF global_id = NoText THEN token_hex[5] ELSE global_id,
                             ":", <<>>), "-", <<>>)
        s == Replace(Replace(IF subnet_id = NoText THEN token_hex[2] ELSE subnet_id,
                             ":", <<>>), "-", <<>>)
        i == Replace(Replace(IF interface_id = NoText THEN token_hex[8] ELSE interface_id,
                             ":", <<>>), "-", <<>>)
        global_parts == <<SubSeq(g, 1, 4), SubSeq(g, 5, 8), SubSeq(g, 9, 10)>>
        interface_parts == [ k \in 1 .. 4 |-> SubSeq(i, 4 * (k - 1) + 1, 4 * k) ]
    IN  IF Len(g) # 10 THEN ValueError
        ELSE IF Len(s) # 4 THEN ValueError
        ELSE IF Len(i) # 16 THEN ValueError
        ELSE compress_address(<<"f", "d">> \o SubSeq(g, 1, 2) \o <<":">>
                 \o global_parts[2] \o <<":">> \o global_parts[3] \o s \o <<":">>
                 \o Join(interface_parts, <<":">>))

\* '0' .. '9', by value
DecimalDigits == <<"0", "1", "2", "3", "4", "5", "6", "7", "8", "9">>

\* int(s) of a non-empty text of decimal digits
RECURSIVE DecimalInt(_)
DecimalInt(s) ==
    IF Len(s) = 1 THEN HexValue(s[1])
    ELSE 10 * DecimalInt(SubSeq(s, 1, Len(s) - 1)) + HexValue(s[Len(s)])

\* ipaddress: _prefix_from_prefix_string(prefixlen_str)
prefix_from_prefix_string(prefixlen_str) ==
    IF prefixlen_str = <<>> \/ ~(Range(prefixlen_str) \subseteq Range(DecimalDigits))
    THEN NetmaskValueError
    ELSE IF DecimalInt(prefixlen_str) > 16 * HEXTET_COUNT THEN NetmaskValueError
    ELSE Ok(DecimalInt(prefixlen_str))

\* ip & netmask, group by group: the prefixlen leading bits are kept
MaskGroups(ip, prefixlen) ==
    [ k \in 1 .. HEXTET_COUNT |->
        (ip[k] \div Pow2(16 - BitsInGroup(prefixlen, k))) * Pow2(16 - BitsInGroup(prefixlen, k)) ]

\* ip & ((1 << bits) - 1), group by group: the bits trailing bits are kept
LowGroups(ip, bits) ==
    [ k \in 1 .. HEXTET_COUNT |->
        ip[k] % Pow2(16 - BitsInGroup(16 * HEXTET_COUNT - bits, k)) ]

\* x | y on two groups
RECURSIVE BitOr(_, _)
BitOr(x, y) ==
    IF x = 0 THEN y
    ELSE IF y = 0 THEN x
    ELSE 2 * BitOr(x \div 2, y \div 2) + (IF x % 2 = 1 \/ y % 2 = 1 THEN 1 ELSE 0)

\* ipaddress.IPv6Network(text, strict=False) at full width:
\* [network_address, prefixlen], AddressValueError or NetmaskValueError
LibIPv6NetworkNonStrict(address) ==
    LET addr == Split(address, "/")
        mask == IF Len(addr) > 1 THEN prefix_from_prefix_string(addr[2])
                ELSE Ok(16 * HEXTET_COUNT)
    IN  IF Len(addr) > 2 THEN AddressValueError
        ELSE IF LibIPv6Address(addr[1]).err # "none" THEN AddressValueError
        ELSE IF mask.err # "none" THEN NetmaskValueError
        ELSE Ok([network_address |-> MaskGroups(LibIPv6Address(addr[1]).val._ip, mask.val),
                 prefixlen |-> mask.val])

\* generate_random_ipv6 laying the random bits over the whole address
generate_random_ipv6_Unmasked(prefix, token_bytes) ==
    LET net == LibIPv6NetworkNonStrict(
                       IF "/" \notin Range(prefix) THEN prefix \o <<"/", "6", "4">> ELSE prefix)
    IN  IF net.err # "none" THEN net
        ELSE Ok(string_from_ip_int(
                 [ k \in 1 .. HEXTET_COUNT |->
                     BitOr(net.val.network_address[k], token_bytes[k]) ]))

\* generate_random_ipv6(prefix); token_bytes holds the bits that
\* secrets.token_bytes draws in this call, as the trailing bits of an address
generate_random_ipv6(prefix, token_bytes) ==
    LET net == LibIPv6NetworkNonStrict(
                       IF "/" \notin Range(prefix) THEN prefix \o <<"/", "6", "4">> ELSE prefix)
        host_bits == 16 * HEXTET_COUNT - net.val.prefixlen
        random_bytes == (host_bits + 7) \div 8
        random_int == LowGroups(LowGroups(token_bytes, 8 * random_bytes), host_bits)
    IN  IF net.err # "none" THEN net
        ELSE Ok(string_from_ip_int(
                 [ k \in 1 .. HEXTET_COUNT |->
                     BitOr(net.val.network_address[k], random_int[k]) ]))

\* reversed(s)
RECURSIVE Reversed(_)
Reversed(s) == IF s = <<>> THEN <<>> ELSE Reversed(Tail(s)) \o <<s[1]>>

\* reverse_pointer writing the nibbles in the order of the address
reverse_pointer_Forward(address) ==
    LET addr == LibIPv6Address(IF "%" \in Range(address) THEN Split(address, "%")[1]
                               ELSE address)
    IN  IF addr.err # "none" THEN addr
        ELSE Ok(Join([ k \in 1 .. 32 |-> <<Replace(LibExploded(addr.val).val, ":", <<>>)[k]>> ],
                     <<".">>)
                 \o <<".", "i", "p", "6", ".", "a", "r", "p", "a">>)

\* reverse_pointer(address)
reverse_pointer(address) ==
    LET addr == LibIPv6Address(IF "%" \in Range(address) THEN Split(address, "%")[1]
                               ELSE address)
        nibbles == Replace(LibExploded(addr.val).val, ":", <<>>)
    IN  IF addr.err # "none" THEN addr
        ELSE Ok(Join([ k \in 1 .. Len(nibbles) |-> <<Reversed(nibbles)[k]>> ], <<".">>)
                 \o <<".", "i", "p", "6", ".", "a", "r", "p", "a">>)

(***************************************************************************)
(* Address validators (validator.py)                                       *)
(***************************************************************************)

\* is_valid_ipv6(address, allow_zone)
is_valid_ipv6(address, allow_zone) ==
    IF address = <<>> THEN Ok(FALSE)
    ELSE IF "%" \in Range(address) /\ ~allow_zone THEN Ok(FALSE)
    ELSE Ok(LibIPv6Address(Split(address, "%")[1]).err = "none")

\* validate_ipv6(address, allow_zone)
validate_ipv6(address, allow_zone) ==
    IF address = <<>> THEN Ok(Invalid("Address cannot be empty"))
    ELSE IF "%" \in Range(address)
    THEN LET parts == Split(address, "%")
         IN  IF ~allow_zone THEN Ok(Invalid("Zone IDs are not allowed"))
             ELSE IF Len(parts) # 2 THEN Ok(Invalid("Invalid zone ID format"))
             ELSE IF parts[2] = <<>> THEN Ok(Invalid("Zone ID cannot be empty"))
             ELSE IF LibIPv6Address(parts[1]).err = "none" THEN Ok(Valid)
             ELSE Ok(Invalid(LibIPv6Address(parts[1]).err))
    ELSE IF LibIPv6Address(address).err = "none" THEN Ok(Valid)
    ELSE Ok(Invalid(LibIPv6Address(address).err))

(***************************************************************************)
(* IPv6SecurityScanner.scan_ports (security.py)                            *)
(***************************************************************************)

\* The longest list of ports handed to scan_ports
MaxPorts == 3

\* The exception connect_ex raises for a port outside 0 .. 65535; scan_port
\* catches socket.error only
OverflowError == [err |-> "OverflowError", val |-> <<>>]

\* scan_port(address, port): what a scan may end with.  Whether the port is
\* open is the network's answer; the result carries the port scanned.
scan_port(port) ==
    IF port \in 0 .. 65535
    THEN { Ok([port |-> port, is_open |-> o]) : o \in BOOLEAN }
    ELSE { OverflowError }

\* executor.submit(self.scan_port, address, port): a future not yet started
Future(port) == [port |-> port, state |-> "pending", outcome |-> Ok(<<>>), yielded |-> FALSE]

\* list.insert keeping the order of the keys: x goes after the items whose
\* port is not greater
RECURSIVE InsertByPort(_, _)
InsertByPort(sorted, x) ==
    IF sorted = <<>> THEN <<x>>
    ELSE IF x.port < Head(sorted).port THEN <<x>> \o sorted
    ELSE <<Head(sorted)>> \o InsertByPort(Tail(sorted), x)

\* scan_ports handing back the results in the order of completion
sorted_by_port_AsCompleted(rs) == rs

\* sorted(results, key=lambda x: x.port): ascending, equal keys in the
\* order they had
RECURSIVE sorted_by_port(_)
sorted_by_port(rs) ==
    IF rs = <<>> THEN <<>>
    ELSE InsertByPort(sorted_by_port(SubSeq(rs, 1, Len(rs) - 1)), rs[Len(rs)])

(***************************************************************************)
(* The state machine: an object is constructed, then called any number of  *)
(* times; each call returns before the next one starts.                    *)
(***************************************************************************)

\* Arguments tried for a count, a prefix length or a prefix difference
CountArgs == -1 .. (Pow2(AddrBits) + 1)

PrefixArgs == -1 .. (AddrBits + 1)

Init ==
    /\ \E t \in ValidNetTexts : network = NetworkNonStrict(t)
    /\ text = NoText
    /\ ipv6address = None
    /\ pc = "idle"
    /\ op = "init"
    /\ args = NoArgs
    /\ result = Ok(<<>>)
    /\ futures = <<>>
    /\ results = <<>>

\* recommend_allocation is a @staticmethod: it is called on the class, with
\* no calculator constructed (network holds None)
InitStatic ==
    /\ network = None
    /\ text = NoText
    /\ ipv6address = None
    /\ pc = "idle"
    /\ op = "init"
    /\ args = NoArgs
    /\ result = Ok(<<>>)
    /\ futures = <<>>
    /\ results = <<>>

\* A call of get_supernet that keeps the supernet as the receiver's network
Call_StoresSupernet(name, a, r) ==
    /\ pc' = "done"
    /\ op' = name
    /\ args' = a
    /\ result' = r
    /\ network' = IF name = "get_supernet" /\ r.err = "none"
                  THEN Net(r.val.network_address, r.val.prefix_length)
                  ELSE network
    /\ UNCHANGED <<text, ipv6address, futures, results>>

\* A call: the receiver and what the caller holds stay as they are
Call(name, a, r) ==
    /\ pc' = "done"
    /\ op' = name
    /\ args' = a
    /\ result' = r
    /\ UNCHANGED <<network, text, ipv6address, futures, results>>

GetInfo ==
    /\ pc = "idle"
    /\ network # None
    /\ Call("get_info", NoArgs, get_info(network))

DivideIntoSubnets ==
    /\ pc = "idle"
    /\ \E c \in CountArgs :
        Call("divide_into_subnets", [num_subnets |-> c], divide_into_subnets(network, c))

DivideByPrefix ==
    /\ pc = "idle"
    /\ \E p \in PrefixArgs :
        Call("divide_by_prefix", [new_prefix |-> p], divide_by_prefix(network, p))

GetSupernet ==
    /\ pc = "idle"
    /\ \E p \in PrefixArgs :
        Call("get_supernet", [new_prefix |-> p], get_supernet(network, p))

Subnets ==
    /\ pc = "idle"
    /\ \E d \in PrefixArgs :
        Call("subnets", [prefixlen_diff |-> d], subnets(network, d))

Supernet ==
    /\ pc = "idle"
    /\ \E d \in PrefixArgs :
        Call("supernet", [prefixlen_diff |-> d], supernet(network, d))

Contains ==
    /\ pc = "idle"
    /\ \E t \in AddrTexts :
        Call("contains", [address |-> t], contains(network, t))

ContainsAddress ==
    /\ pc = "idle"
    /\ \E t \in AddrTexts :
        Call("contains_address", [address |-> t], contains_address(network, t))

\* address in network, with a str or with an IPv6Address built from a text
InOperator ==
    /\ pc = "idle"
    /\ \E t \in AddrTexts :
        \/ Call("in", [kind |-> "str", address |-> t], in_operator(network, "str", t))
        \/ /\ IPv6AddressOf(t).err = "none"
           /\ Call("in", [kind |-> "IPv6Address", address |-> t],
                   in_operator(network, "IPv6Address", IPv6AddressOf(t).val))

\* the lists of at most MaxOthers network texts
OtherLists == UNION { [1 .. k -> NetTexts] : k \in 0 .. MaxOthers }

GetSummaryAddress ==
    /\ pc = "idle"
    /\ \E l \in OtherLists :
        Call("get_summary_address",
             [other_networks |-> l, left |-> get_summary_address_leaves(network, l)],
             get_summary_address(network, l))

\* the names of the departments: "A", "AB", "B"
Names == { <<65>>, <<65, 66>>, <<66>> }

Counts == 0 .. MaxCount

Item(nm, c) == [name |-> nm, count |-> c]

\* the dicts over Names, as sequences of items in insertion order
Dicts ==
    { d \in UNION { [1 .. k -> { Item(nm, c) : nm \in Names, c \in Counts }] :
                      k \in 0 .. Cardinality(Names) } :
        \A i, j \in 1 .. Len(d) : i # j => d[i].name # d[j].name }

RecommendAllocation ==
    /\ pc = "idle"
    /\ \E t \in NetTexts, d \in Dicts :
        Call("recommend_allocation",
             [total_prefix |-> t, department_counts |-> d,
              left |-> recommend_allocation_leaves(t, d)],
             recommend_allocation(t, d))

\* Network texts handed to constructors and validators: "addr/prefix" with
\* or without host bits, a prefix out of range, text with no '/', and text
\* whose address part is no address ("invalid/0", "invalid"), and ""
NetTextArgs ==
    NetTexts \cup { NetText(a, NoSlash) : a \in Addresses \cup {NotAnAddress} }
             \cup { NetText(NotAnAddress, 0), EmptyNetText }

\* A constructor call: the new object replaces the old one when it is built
Construct(name, a, r) ==
    /\ pc' = "done"
    /\ op' = name
    /\ args' = a
    /\ result' = r
    /\ network' = IF r.err = "none" THEN r.val ELSE network
    /\ UNCHANGED <<text, ipv6address, futures, results>>

NewIPv6Network ==
    /\ pc = "idle"
    /\ \E t \in NetTextArgs, strict \in BOOLEAN :
        Construct("IPv6Network", [network |-> t, strict |-> strict],
                  IPv6Network_init(t, strict))

NewIPv6SubnetCalculator ==
    /\ pc = "idle"
    /\ \E t \in NetTextArgs :
        Construct("IPv6SubnetCalculator", [network |-> t], IPv6SubnetCalculator_init(t))

Overlaps ==
    /\ pc = "idle"
    /\ \E other \in Networks :
        Call("overlaps", [other |-> other], overlaps(network, other))

OverlapsWith ==
    /\ pc = "idle"
    /\ \E t \in NetTextArgs :
        Call("overlaps_with", [other_network |-> t], overlaps_with(network, t))

IsValidIPv6Network ==
    /\ pc = "idle"
    /\ \E t \in NetTextArgs :
        Call("is_valid_ipv6_network", [network |-> t], is_valid_ipv6_network(t))

ValidateIPv6Network ==
    /\ pc = "idle"
    /\ \E t \in NetTextArgs :
        Call("validate_ipv6_network", [network |-> t], validate_ipv6_network(t))

\* Nonzero values of the eight groups: 2001, db8, 1, a0, fe80, ffff, 10, abcd
SampleGroups == <<8193, 3512, 1, 160, 65152, 65535, 16, 43981>>

\* Every placement of zero groups: each group is zero or its sample value
ZeroPatternValues ==
    { [ i \in 1 .. HEXTET_COUNT |-> IF i \in S THEN SampleGroups[i] ELSE 0 ] :
        S \in SUBSET (1 .. HEXTET_COUNT) }

\* First groups of addresses of every kind: 0, 100, 2001, 2606, 4000, fc00,
\* fd00, fe80, febf, fec0, ff02
ClassHeads == { 0, 256, 8193, 9734, 16384, 64512, 64768, 65152, 65215, 65216, 65282 }

\* Addresses of every kind, among them ::, ::1, fe80::1, 2001:db8::1 and the
\* IPv4-mapped ::ffff:192.168.0.1 and ::ffff:8.8.8.8
ClassValues ==
    { <<h, s, 0, 0, 0, 0, 0, l>> : h \in ClassHeads, s \in {0, 3512}, l \in {0, 1} }
        \cup { <<0, 0, 0, 0, 0, 65535, 49320, 1>>, <<0, 0, 0, 0, 0, 65535, 2056, 2056>> }

\* The address written in full, as in "2001:0db8:0000:0000:0000:0000:0000:0001"
FullText(ip) == Join(Slices(Hex032(ip)), <<":">>)

\* The address written short, as in "2001:db8::1"
ShortText(ip) == string_from_ip_int(ip)

\* Valid texts no formatter writes: "FE80::1", "2001:0DB8::0001",
\* "0:0:0:0:0:0:0:1", "1:2:3:4:5:6:7::", "1:0:0:2::"
OtherValidTexts ==
    { <<"F", "E", "8", "0", ":", ":", "1">>,
      <<"2", "0", "0", "1", ":", "0", "D", "B", "8", ":", ":", "0", "0", "0", "1">>,
      <<"0", ":", "0", ":", "0", ":", "0", ":", "0", ":", "0", ":", "0", ":", "1">>,
      <<"1", ":", "2", ":", "3", ":", "4", ":", "5", ":", "6", ":", "7", ":", ":">>,
      <<"1", ":", "0", ":", "0", ":", "2", ":", ":">> }

\* Texts that are no address: "", "gggg::1", ":::", "1::2::3", "12345::",
\* "1:2:3:4:5:6:7:8:9", ":1:2:3:4:5:6:7", "1:2:3:4:5:6:7", "fe80::1/64", "1"
InvalidTexts ==
    { <<>>,
      <<"g", "g", "g", "g", ":", ":", "1">>,
      <<":", ":", ":">>,
      <<"1", ":", ":", "2", ":", ":", "3">>,
      <<"1", "2", "3", "4", "5", ":", ":">>,
      <<"1", ":", "2", ":", "3", ":", "4", ":", "5", ":", "6", ":", "7", ":", "8", ":", "9">>,
      <<":", "1", ":", "2", ":", "3", ":", "4", ":", "5", ":", "6", ":", "7">>,
      <<"1", ":", "2", ":", "3", ":", "4", ":", "5", ":", "6", ":", "7">>,
      <<"f", "e", "8", "0", ":", ":", "1", "/", "6", "4">>,
      <<"1">> }

\* What follows the address in a text: nothing, "%eth0", "%eth1", "%",
\* "%a%b", "%a/b"
Suffixes ==
    { <<>>,
      <<"%", "e", "t", "h", "0">>,
      <<"%", "e", "t", "h", "1">>,
      <<"%">>,
      <<"%", "a", "%", "b">>,
      <<"%", "a", "/", "b">> }

\* The texts of a value: full and short, with every suffix
TextsOf(ip) == { f \o x : f \in {FullText(ip), ShortText(ip)}, x \in Suffixes }

\* Address texts handed to the constructor and to the functions
AddressTextArgs ==
    { FullText(ip) : ip \in ZeroPatternValues }
        \cup { ShortText(ip) : ip \in ZeroPatternValues }
        \cup UNION { TextsOf(ip) : ip \in ClassValues }
        \cup { t \o x : t \in OtherValidTexts \cup InvalidTexts, x \in Suffixes }

\* The caller holds one address text; no object is built yet
InitAddress ==
    /\ network = None
    /\ text \in AddressTextArgs
    /\ ipv6address = None
    /\ pc = "idle"
    /\ op = "init"
    /\ args = NoArgs
    /\ result = Ok(<<>>)
    /\ futures = <<>>
    /\ results = <<>>

\* IPv6Address(text): the object is built once, the calls that follow are on it
NewIPv6Address ==
    /\ pc = "idle"
    /\ ipv6address = None
    /\ pc' = "done"
    /\ op' = "IPv6Address"
    /\ args' = [address |-> text]
    /\ result' = IPv6Address_init(text)
    /\ ipv6address' = IF IPv6Address_init(text).err = "none"
                      THEN IPv6Address_init(text).val ELSE ipv6address
    /\ UNCHANGED <<network, text, futures, results>>

Compressed ==
    /\ pc = "idle"
    /\ ipv6address # None
    /\ Call("compressed", NoArgs, compressed(ipv6address))

Exploded ==
    /\ pc = "idle"
    /\ ipv6address # None
    /\ Call("exploded", NoArgs, exploded(ipv6address))

GetAddressType ==
    /\ pc = "idle"
    /\ ipv6address # None
    /\ Call("get_address_type", NoArgs, get_address_type(ipv6address))

Str ==
    /\ pc = "idle"
    /\ ipv6address # None
    /\ Call("str", NoArgs, IPv6Address_str(ipv6address))

\* Texts of the other side of a comparison: the same value written full and
\* short, with no zone and with two zones, and "fe80::2", "::", "FE80::1"
EqTextArgs(ip) ==
    { f \o x : f \in {FullText(ip), ShortText(ip)},
               x \in { <<>>, <<"%", "e", "t", "h", "0">>, <<"%", "e", "t", "h", "1">> } }
        \cup { <<"f", "e", "8", "0", ":", ":", "2">>, <<":", ":">>,
               <<"F", "E", "8", "0", ":", ":", "1">> }

\* ipv6address == other, other being an IPv6Address built from a text
Eq ==
    /\ pc = "idle"
    /\ ipv6address # None
    /\ \E t \in EqTextArgs(ipv6address._addr._ip) :
        /\ IPv6Address_init(t).err = "none"
        /\ Call("eq", [other |-> t], IPv6Address_eq(ipv6address, IPv6Address_init(t).val))

CompressAddress ==
    /\ pc = "idle"
    /\ text # NoText
    /\ Call("compress_address", [address |-> text], compress_address(text))

ExpandAddress ==
    /\ pc = "idle"
    /\ text # NoText
    /\ Call("expand_address", [address |-> text], expand_address(text))

IsValidIPv6 ==
    /\ pc = "idle"
    /\ text # NoText
    /\ \E allow_zone \in BOOLEAN :
        Call("is_valid_ipv6", [address |-> text, allow_zone |-> allow_zone],
             is_valid_ipv6(text, allow_zone))

ValidateIPv6 ==
    /\ pc = "idle"
    /\ text # NoText
    /\ \E allow_zone \in BOOLEAN :
        Call("validate_ipv6", [address |-> text, allow_zone |-> allow_zone],
             validate_ipv6(text, allow_zone))

\* The two digits of each octet of a MAC: the first octet with the
\* universal/local bit clear and set, the others zero or telling their place
MacOctets ==
    << { <<"0", "0">>, <<"0", "2">>, <<"1", "1">>, <<"a", "5">>, <<"f", "d">>, <<"f", "f">> },
       { <<"0", "0">>, <<"1", "b">> },
       { <<"0", "0">>, <<"2", "c">> },
       { <<"0", "0">>, <<"3", "d">> },
       { <<"0", "0">>, <<"4", "e">> },
       { <<"0", "0">>, <<"5", "f">> } >>

Macs == { m \in [1 .. 6 -> UNION Range(MacOctets)] : \A i \in 1 .. 6 : m[i] \in MacOctets[i] }

\* A MAC written "00:11:22:33:44:55", "00-11-22-33-44-55", "001122334455"
\* and "0011.2233.4455"
MacTexts(m) ==
    { Join(m, <<":">>), Join(m, <<"-">>), Join(m, <<>>),
      Join(<<m[1] \o m[2], m[3] \o m[4], m[5] \o m[6]>>, <<".">>) }

\* "AA:BB:CC:DD:EE:FF", "aA-bB-cC-dD-eE-fF", "0:0:1:1:2:2:3:3:4:4:5:5"
OtherMacTexts ==
    { <<"A", "A", ":", "B", "B", ":", "C", "C", ":", "D", "D", ":", "E", "E", ":", "F", "F">>,
      <<"a", "A", "-", "b", "B", "-", "c", "C", "-", "d", "D", "-", "e", "E", "-", "f", "F">>,
      <<"0", ":", "0", ":", "1", ":", "1", ":", "2", ":", "2", ":", "3", ":", "3", ":",
        "4", ":", "4", ":", "5", ":", "5">> }

\* Texts that are no MAC: "", "00:11:22", "00:11:22:33:44:55:66",
\* "gg:hh:ii:jj:kk:ll", "00112233445g", "+11223344556", " 11223344556",
\* "11223344556 ", "+1:12:23:34:45:56", "0x1122334455", "0X1122334455",
\* "0_1122334455", "001_22334455", "1_1223344556", "00112233_455",
\* "0011223344_5", "  1122334455", "+ 1122334455"
InvalidMacTexts ==
    { <<>>,
      <<"0", "0", ":", "1", "1", ":", "2", "2">>,
      <<"0", "0", ":", "1", "1", ":", "2", "2", ":", "3", "3", ":", "4", "4", ":", "5", "5",
        ":", "6", "6">>,
      <<"g", "g", ":", "h", "h", ":", "i", "i", ":", "j", "j", ":", "k", "k", ":", "l", "l">>,
      <<"0", "0", "1", "1", "2", "2", "3", "3", "4", "4", "5", "g">>,
      <<"+", "1", "1", "2", "2", "3", "3", "4", "4", "5", "5", "6">>,
      <<" ", "1", "1", "2", "2", "3", "3", "4", "4", "5", "5", "6">>,
      <<"1", "1", "2", "2", "3", "3", "4", "4", "5", "5", "6", " ">>,
      <<"+", "1", ":", "1", "2", ":", "2", "3", ":", "3", "4", ":", "4", "5", ":", "5", "6">>,
      <<"0", "x", "1", "1", "2", "2", "3", "3", "4", "4", "5", "5">>,
      <<"0", "X", "1", "1", "2", "2", "3", "3", "4", "4", "5", "5">>,
      <<"0", "_", "1", "1", "2", "2", "3", "3", "4", "4", "5", "5">>,
      <<"0", "0", "1", "_", "2", "2", "3", "3", "4", "4", "5", "5">>,
      <<"1", "_", "1", "2", "2", "3", "3", "4", "4", "5", "5", "6">>,
      <<"0", "0", "1", "1", "2", "2", "3", "3", "_", "4", "5", "5">>,
      <<"0", "0", "1", "1", "2", "2", "3", "3", "4", "4", "_", "5">>,
      <<" ", " ", "1", "1", "2", "2", "3", "3", "4", "4", "5", "5">>,
      <<"+", " ", "1", "1", "2", "2", "3", "3", "4", "4", "5", "5">> }

MacTextArgs == UNION { MacTexts(m) : m \in Macs } \cup OtherMacTexts \cup InvalidMacTexts

\* The caller holds one MAC text
InitMac ==
    /\ network = None
    /\ text \in MacTextArgs
    /\ ipv6address = None
    /\ pc = "idle"
    /\ op = "init"
    /\ args = NoArgs
    /\ result = Ok(<<>>)
    /\ futures = <<>>
    /\ results = <<>>

MacToIPv6LinkLocal ==
    /\ pc = "idle"
    /\ text # NoText
    /\ Call("mac_to_ipv6_link_local", [mac |-> text], mac_to_ipv6_link_local(text))

\* Fields handed to generate_unique_local: None, a field of the right
\* length, one written with separators, and fields of a wrong length
GlobalIdArgs ==
    { NoText,
      <<"0", "1", "2", "3", "4", "5", "6", "7", "8", "9">>,
      <<"0", "1", ":", "2", "3", ":", "4", "5", ":", "6", "7", ":", "8", "9">>,
      <<"s", "h", "o", "r", "t">>,
      <<"0", "1", "2", "3", "4", "5", "6", "7", "8", "9", "a">> }

SubnetIdArgs ==
    { NoText,
      <<"a", "b", "c", "d">>,
      <<"a", "b", "-", "c", "d">>,
      <<"t", "o", "o", "l", "o", "n", "g">>,
      <<>> }

InterfaceIdArgs ==
    { NoText,
      <<"0", "0", "0", "0", "0", "0", "0", "0", "0", "0", "0", "0", "0", "0", "0", "1">>,
      <<"0", "0", "0", "0", ":", "0", "0", "0", "0", ":", "0", "0", "0", "0", ":",
        "0", "0", "0", "1">>,
      <<"s", "h", "o", "r", "t">> }

\* What secrets.token_hex(n) may draw for n = 2, 5 and 8: 2n hex digits
TokenHexDraws ==
    { [ n \in {2, 5, 8} |-> [ k \in 1 .. 2 * n |-> "0" ] ],
      [ n \in {2, 5, 8} |-> [ k \in 1 .. 2 * n |-> LowerHex[((7 * k + n) % 16) + 1] ] ] }

GenerateUniqueLocal ==
    /\ pc = "idle"
    /\ network = None
    /\ text = NoText
    /\ \E global_id \in GlobalIdArgs, subnet_id \in SubnetIdArgs,
          interface_id \in InterfaceIdArgs, token_hex \in TokenHexDraws :
        Call("generate_unique_local",
             [global_id |-> global_id, subnet_id |-> subnet_id,
              interface_id |-> interface_id, token_hex |-> token_hex],
             generate_unique_local(global_id, subnet_id, interface_id, token_hex))

\* Prefix texts handed to generate_random_ipv6: an address text, then
\* nothing or what follows it
PrefixTextArgs ==
    { a \o m :
        a \in { <<"2", "0", "0", "1", ":", "d", "b", "8", ":", ":">>,
                <<"2", "0", "0", "1", ":", "d", "b", "8", ":", ":", "1">>,
                <<"2", "0", "0", "1", ":", "d", "b", "8", ":", "1", ":", "2", ":", "3", ":",
                  "4", ":", "5", ":", "6">>,
                <<"f", "e", "8", "0", ":", ":", "1", "%", "e", "t", "h", "0">>,
                <<":", ":">>,
                FullText(<<65535, 65535, 65535, 65535, 65535, 65535, 65535, 65535>>),
                <<"b", "a", "d">> },
        m \in { <<>>, <<"/", "0">>, <<"/", "1">>, <<"/", "7">>, <<"/", "1", "6">>,
                <<"/", "3", "2">>, <<"/", "4", "8">>, <<"/", "6", "3">>, <<"/", "6", "4">>,
                <<"/", "0", "6", "5">>, <<"/", "1", "2", "7">>, <<"/", "1", "2", "8">>,
                <<"/", "1", "2", "9">>, <<"/">>, <<"/", "6", "4", "/", "6", "4">>,
                <<"/", "x">> } }

\* What secrets.token_bytes may draw, laid out as the trailing bits of an
\* address: all zero, all one, 1234:5678:9abc:def0:fed:cba9:8765:4321
TokenBytesDraws ==
    { <<0, 0, 0, 0, 0, 0, 0, 0>>,
      <<65535, 65535, 65535, 65535, 65535, 65535, 65535, 65535>>,
      <<4660, 22136, 39612, 57072, 4077, 52137, 34661, 17185>> }

GenerateRandomIPv6 ==
    /\ pc = "idle"
    /\ network = None
    /\ text = NoText
    /\ \E prefix \in PrefixTextArgs, token_bytes \in TokenBytesDraws :
        Call("generate_random_ipv6", [prefix |-> prefix, token_bytes |-> token_bytes],
             generate_random_ipv6(prefix, token_bytes))

ReversePointer ==
    /\ pc = "idle"
    /\ text # NoText
    /\ Call("reverse_pointer", [address |-> text], reverse_pointer(text))

\* Port numbers handed to scan_ports; 70000 is no port
PortArgs == { 22, 80, 70000 }

\* the lists of at most MaxPorts of them, repeated and unordered ones included
PortLists == UNION { [1 .. k -> PortArgs] : k \in 0 .. MaxPorts }

\* self.max_workers
WorkerArgs == { 1, 2 }

\* scan_ports(address, ports) is entered: results = [], the executor is made
ScanPorts ==
    /\ pc = "idle"
    /\ network = None
    /\ text = NoText
    /\ \E ports \in PortLists, max_workers \in WorkerArgs :
        /\ pc' = "scan_ports"
        /\ op' = "scan_ports"
        /\ args' = [ports |-> ports, max_workers |-> max_workers]
    /\ futures' = <<>>
    /\ results' = <<>>
    /\ UNCHANGED <<network, text, ipv6address, result>>

\* the dict comprehension submits the next port of the list
Submit ==
    /\ pc = "scan_ports"
    /\ Len(futures) < Len(args.ports)
    /\ futures' = Append(futures, Future(args.ports[Len(futures) + 1]))
    /\ UNCHANGED <<network, text, ipv6address, pc, op, args, result, results>>

\* a worker thread takes the oldest waiting scan, while fewer than
\* max_workers are running
WorkerStart ==
    /\ pc \in {"scan_ports", "shutdown"}
    /\ Cardinality({ i \in 1 .. Len(futures) : futures[i].state = "running" })
          < args.max_workers
    /\ \E i \in 1 .. Len(futures) :
        /\ futures[i].state = "pending"
        /\ \A j \in 1 .. i - 1 : futures[j].state # "pending"
        /\ futures' = [futures EXCEPT ![i].state = "running"]
    /\ UNCHANGED <<network, text, ipv6address, pc, op, args, result, results>>

\* a running scan ends, in any order: scan_port returns or raises
WorkerFinish ==
    /\ pc \in {"scan_ports", "shutdown"}
    /\ \E i \in 1 .. Len(futures) :
        /\ futures[i].state = "running"
        /\ \E o \in scan_port(futures[i].port) :
            futures' = [futures EXCEPT ![i].state = "finished", ![i].outcome = o]
    /\ UNCHANGED <<network, text, ipv6address, pc, op, args, result, results>>

\* as_completed yields a finished future once every port is submitted;
\* future.result() is appended, or raises what the scan raised, which ends
\* the loop
AsCompleted ==
    /\ pc = "scan_ports"
    /\ Len(futures) = Len(args.ports)
    /\ \E i \in 1 .. Len(futures) :
        /\ futures[i].state = "finished"
        /\ ~futures[i].yielded
        /\ futures' = [futures EXCEPT ![i].yielded = TRUE]
        /\ IF futures[i].outcome.err = "none"
           THEN /\ results' = Append(results, futures[i].outcome.val)
                /\ UNCHANGED <<pc, result>>
           ELSE /\ pc' = "shutdown"
                /\ result' = futures[i].outcome
                /\ UNCHANGED results
    /\ UNCHANGED <<network, text, ipv6address, op, args>>

\* as_completed has yielded every future: the loop ends and the with block
\* is left
LoopEnd ==
    /\ pc = "scan_ports"
    /\ Len(futures) = Len(args.ports)
    /\ \A i \in 1 .. Len(futures) : futures[i].yielded
    /\ pc' = "shutdown"
    /\ UNCHANGED <<network, text, ipv6address, op, args, result, futures, results>>

\* leaving the with block waits for every submitted scan (shutdown(wait=True)),
\* then the sorted results are returned, or the exception goes on to the caller
ScanPortsReturn ==
    /\ pc = "shutdown"
    /\ \A i \in 1 .. Len(futures) : futures[i].state = "finished"
    /\ pc' = "done"
    /\ result' = IF result.err = "none" THEN Ok(sorted_by_port(results)) ELSE result
    /\ UNCHANGED <<network, text, ipv6address, op, args, futures, results>>

\* The caller takes the result; the object is ready for the next call and
\* the locals of the call are gone.
Return ==
    /\ pc = "done"
    /\ pc' = "idle"
    /\ op' = "init"
    /\ args' = NoArgs
    /\ result' = Ok(<<>>)
    /\ futures' = <<>>
    /\ results' = <<>>
    /\ UNCHANGED <<network, text, ipv6address>>

NextDivide ==
    \/ DivideIntoSubnets
    \/ DivideByPrefix
    \/ GetSupernet
    \/ Subnets
    \/ Supernet
    \/ Return

SpecDivide == Init /\ [][NextDivide]_vars

NextContains ==
    \/ Contains
    \/ ContainsAddress
    \/ InOperator
    \/ OverlapsWith
    \/ Return

SpecContains == Init /\ [][NextContains]_vars

NextSummary ==
    \/ GetSummaryAddress
    \/ Return

SpecSummary == Init /\ [][NextSummary]_vars

NextAlloc ==
    \/ RecommendAllocation
    \/ Return

SpecAlloc == InitStatic /\ [][NextAlloc]_vars

NextPlan ==
    \/ DivideIntoSubnets
    \/ DivideByPrefix
    \/ GetSupernet
    \/ RecommendAllocation
    \/ Return

SpecPlan == Init /\ [][NextPlan]_vars

NextFrame ==
    \/ GetInfo
    \/ DivideIntoSubnets
    \/ DivideByPrefix
    \/ GetSupernet
    \/ ContainsAddress
    \/ OverlapsWith
    \/ GetSummaryAddress
    \/ RecommendAllocation
    \/ Return

SpecFrame == Init /\ [][NextFrame]_vars

NextNetwork ==
    \/ NewIPv6Network
    \/ NewIPv6SubnetCalculator
    \/ Overlaps
    \/ OverlapsWith
    \/ IsValidIPv6Network
    \/ ValidateIPv6Network
    \/ Return

SpecNetwork == Init /\ [][NextNetwork]_vars

NextAddress ==
    \/ NewIPv6Address
    \/ Compressed
    \/ Exploded
    \/ GetAddressType
    \/ Str
    \/ Eq
    \/ CompressAddress
    \/ ExpandAddress
    \/ IsValidIPv6
    \/ ValidateIPv6
    \/ ReversePointer
    \/ Return

SpecAddress == InitAddress /\ [][NextAddress]_vars

NextMac ==
    \/ MacToIPv6LinkLocal
    \/ Return

SpecMac == InitMac /\ [][NextMac]_vars

NextGenerate ==
    \/ GenerateUniqueLocal
    \/ GenerateRandomIPv6
    \/ Return

SpecGenerate == InitStatic /\ [][NextGenerate]_vars

NextScan ==
    \/ ScanPorts
    \/ Submit
    \/ WorkerStart
    \/ WorkerFinish
    \/ AsCompleted
    \/ LoopEnd
    \/ ScanPortsReturn
    \/ Return

SpecScan == InitStatic /\ [][NextScan]_vars

Next ==
    \/ DivideIntoSubnets
    \/ DivideByPrefix
    \/ GetSupernet
    \/ Subnets
    \/ Supernet
    \/ Contains
    \/ ContainsAddress
    \/ InOperator
    \/ GetSummaryAddress
    \/ RecommendAllocation
    \/ NewIPv6Network
    \/ NewIPv6SubnetCalculator
    \/ Overlaps
    \/ OverlapsWith
    \/ IsValidIPv6Network
    \/ ValidateIPv6Network
    \/ NewIPv6Address
    \/ Compressed
    \/ Exploded
    \/ GetAddressType
    \/ Str
    \/ Eq
    \/ CompressAddress
    \/ ExpandAddress
    \/ IsValidIPv6
    \/ ValidateIPv6
    \/ MacToIPv6LinkLocal
    \/ GenerateUniqueLocal
    \/ GenerateRandomIPv6
    \/ ReversePointer
    \/ GetInfo
    \/ ScanPorts
    \/ Submit
    \/ WorkerStart
    \/ WorkerFinish
    \/ AsCompleted
    \/ LoopEnd
    \/ ScanPortsReturn
    \/ Return

Spec == Init /\ [][Next]_vars

(***************************************************************************)
(* Properties                                                              *)
(***************************************************************************)

Returned(name) == pc = "done" /\ op = name

Succeeded == result.err = "none"

\* The call failed with ValueError and handed back nothing
FailedWithValueError == result.err = "ValueError" /\ result.val = <<>>

\* b is ceil(log2(n)), said without computing it: 2^b reaches n and 2^(b-1) does not
IsCeilLog2(b, n) == Pow2(b) >= n /\ (b = 0 \/ Pow2(b - 1) < n)

\* first .. last of a SubnetInfo is a block of prefix p: aligned, of 2^(AddrBits-p) addresses
IsBlockOfPrefix(info, p) ==
    /\ info.prefix_length = p
    /\ info.num_addresses = Pow2(AddrBits - p)
    /\ info.first_address = info.network_address
    /\ info.last_address = info.network_address + Pow2(AddrBits - p) - 1
    /\ info.network_address % Pow2(AddrBits - p) = 0

\* the list of SubnetInfo is the first Len(l) children of prefix p of the
\* block starting at base, in ascending address order
AreFirstChildren(l, base, p) ==
    \A i \in 1 .. Len(l) :
        /\ IsBlockOfPrefix(l[i], p)
        /\ l[i].network_address = base + (i - 1) * Pow2(AddrBits - p)

\* C5: for a network of prefix q and q < p <= AddrBits, divide_by_prefix(p)
\* returns exactly 2^(p-q) blocks of prefix p, in ascending address order,
\* pairwise disjoint, each starting one past the previous block's last
\* address, the first at the network's base and the last ending at the
\* network's last address.
C5_DivideByPrefixExact ==
    (Returned("divide_by_prefix")
       /\ network.prefix < args.new_prefix /\ args.new_prefix <= AddrBits)
    => /\ Succeeded
       /\ Len(result.val) = Pow2(args.new_prefix - network.prefix)
       /\ \A i \in 1 .. Len(result.val) : IsBlockOfPrefix(result.val[i], args.new_prefix)
       /\ result.val[1].network_address = network.base
       /\ \A i \in 1 .. Len(result.val) - 1 :
              result.val[i + 1].network_address = result.val[i].last_address + 1
       /\ \A i, j \in 1 .. Len(result.val) :
              i < j => result.val[i].last_address < result.val[j].network_address
       /\ result.val[Len(result.val)].last_address
              = network.base + Pow2(AddrBits - network.prefix) - 1

\* C5 witness: a network was divided into four or more blocks
C5_Witness ==
    /\ Returned("divide_by_prefix")
    /\ Succeeded
    /\ args.new_prefix >= network.prefix + 2
    /\ Len(result.val) >= 4

\* C6: for a network of prefix q and count >= 1 with q + ceil(log2(count))
\* <= AddrBits, divide_into_subnets(count) returns exactly count blocks of
\* prefix q + ceil(log2(count)), the first count children of the network in
\* ascending address order; for count = 1 the block is the network itself.
C6_DivideIntoSubnetsFirstChildren ==
    \A b \in 0 .. AddrBits :
        (Returned("divide_into_subnets")
           /\ args.num_subnets >= 1
           /\ IsCeilLog2(b, args.num_subnets)
           /\ network.prefix + b <= AddrBits)
        => /\ Succeeded
           /\ Len(result.val) = args.num_subnets
           /\ AreFirstChildren(result.val, network.base, network.prefix + b)
           /\ (args.num_subnets = 1 =>
                   /\ result.val[1].network_address = network.base
                   /\ result.val[1].prefix_length = network.prefix)

\* C6 witness: a count that is no power of two was served, leaving children unused
C6_Witness ==
    /\ Returned("divide_into_subnets")
    /\ Succeeded
    /\ args.num_subnets = 3
    /\ Len(result.val) = 3
    /\ network.prefix > 0

\* C7 as claimed: subnets(d) on a network of prefix q returns exactly 2^d
\* contiguous equal-size children of prefix q + d in ascending order, and
\* fails whenever q + d exceeds AddrBits, also on a network of prefix AddrBits.
C7_SubnetsFailsBeyondMaxPrefix ==
    (Returned("subnets") /\ args.prefixlen_diff >= 0)
    => IF network.prefix + args.prefixlen_diff > AddrBits
       THEN FailedWithValueError
       ELSE /\ Succeeded
            /\ Len(result.val) = Pow2(args.prefixlen_diff)
            /\ \A i \in 1 .. Len(result.val) :
                   /\ result.val[i].prefix = network.prefix + args.prefixlen_diff
                   /\ result.val[i].base =
                          network.base + (i - 1) * Pow2(AddrBits - result.val[i].prefix)

\* C8 as claimed: the supernet by d bits of a network of prefix q is the
\* network of prefix q - d whose base is the original base with the bits
\* beyond q - d cleared, and it contains the original network; the call
\* fails whenever q - d is negative, also supernet(1) of a /0 network.
C8_SupernetFailsBelowZero ==
    /\ (Returned("supernet") /\ args.prefixlen_diff >= 0)
       => IF network.prefix - args.prefixlen_diff < 0
          THEN FailedWithValueError
          ELSE /\ Succeeded
               /\ result.val.prefix = network.prefix - args.prefixlen_diff
               /\ result.val.base = network.base - (network.base % Pow2(AddrBits - result.val.prefix))
               /\ result.val.base <= network.base
               /\ network.base + Pow2(AddrBits - network.prefix)
                      <= result.val.base + Pow2(AddrBits - result.val.prefix)
    /\ (Returned("get_supernet") /\ args.new_prefix < network.prefix)
       => IF args.new_prefix < 0
          THEN FailedWithValueError
          ELSE /\ Succeeded
               /\ result.val.prefix_length = args.new_prefix
               /\ result.val.network_address =
                      network.base - (network.base % Pow2(AddrBits - args.new_prefix))
               /\ result.val.network_address <= network.base
               /\ network.base + Pow2(AddrBits - network.prefix) - 1 <= result.val.last_address

\* C10: contains, contains_address and the in operator answer TRUE exactly
\* when base <= v <= base + 2^(AddrBits-prefix) - 1 for the value v of the
\* candidate, whatever zone suffix the candidate carries.
C10_ContainsIsRangeMembership ==
    ((Returned("contains") \/ Returned("contains_address") \/ Returned("in"))
       /\ args.address.addr \in Addresses)
    => /\ Succeeded
       /\ result.val =
            ( /\ network.base <= args.address.addr
              /\ args.address.addr <= network.base + Pow2(AddrBits - network.prefix) - 1 )

\* C10 witness: the last address of a network, written with a zone, is found in it
C10_Witness ==
    /\ Returned("contains_address")
    /\ args.address.zones # <<>>
    /\ network.prefix \in 1 .. (AddrBits - 1)
    /\ args.address.addr = network.base + Pow2(AddrBits - network.prefix) - 1
    /\ result.val = TRUE

\* C10 witness of the boundary: the address one past the last is not in the network
C10_WitnessOutside ==
    /\ Returned("contains")
    /\ args.address.addr = network.base + Pow2(AddrBits - network.prefix)
    /\ result.val = FALSE

\* the networks get_summary_address was given, as the calculator parses them
GivenNetworks ==
    <<network>> \o [ i \in 1 .. Len(args.other_networks) |->
                        NetworkNonStrict(args.other_networks[i]) ]

\* block b holds the whole range of network n
HoldsRange(b, n) ==
    /\ b.base <= n.base
    /\ n.base + Pow2(AddrBits - n.prefix) - 1 <= b.base + Pow2(AddrBits - b.prefix) - 1

HoldsAllGiven(b) == \A i \in 1 .. Len(GivenNetworks) : HoldsRange(b, GivenNetworks[i])

SummaryReturned ==
    /\ Returned("get_summary_address")
    /\ \A i \in 1 .. Len(args.other_networks) : args.other_networks[i] \in ValidNetTexts

\* C1 as claimed: get_summary_address returns the smallest single block
\* covering all the given networks: it covers them, and no block with a
\* longer prefix covers every one of them.
C1_SummaryIsSmallestCover ==
    SummaryReturned
    => /\ Succeeded
       /\ result.val \in Networks
       /\ HoldsAllGiven(result.val)
       /\ \A b \in Networks : HoldsAllGiven(b) => b.prefix <= result.val.prefix

\* C2: the block get_summary_address returns contains the full range of
\* the calculator's own network and of every listed network.
C2_SummaryCoversAll ==
    SummaryReturned
    => /\ Succeeded
       /\ result.val \in Networks
       /\ HoldsAllGiven(result.val)

\* C2 witness: a listed network outside the calculator's network was summarised
C2_Witness ==
    /\ SummaryReturned
    /\ Succeeded
    /\ Len(args.other_networks) >= 1
    /\ ~HoldsRange(network, NetworkNonStrict(args.other_networks[1]))
    /\ ~HoldsRange(NetworkNonStrict(args.other_networks[1]), network)
    /\ HoldsAllGiven(result.val)

\* the parent network and the request of a recommend_allocation call
AllocParent == NetworkNonStrict(args.total_prefix)

AllocTotal == SumCounts(args.department_counts)

\* the positions (k, i) of the blocks of a plan: block i of entry k
PlanPositions(plan) ==
    { <<k, i>> : k \in 1 .. Len(plan), i \in 1 .. MaxCount + 1 } \cap
    UNION { { <<k, i>> : i \in 1 .. Len(plan[k].subnets) } : k \in 1 .. Len(plan) }

PlanBlock(plan, pos) == plan[pos[1]].subnets[pos[2]]

AllocSucceeded == Returned("recommend_allocation") /\ Succeeded

RECURSIVE CountBefore(_, _)
CountBefore(d, nm) ==
    IF d = <<>> THEN 0
    ELSE (IF StrLess(Head(d).name, nm) THEN Head(d).count ELSE 0) + CountBefore(Tail(d), nm)

\* C4: recommend_allocation hands out the children in ascending name order
\* whatever the insertion order of the mapping: each name's blocks are
\* consecutive children in ascending address order, every block of a
\* smaller name lies below every block of a larger name, and a mapping
\* with the same name/count pairs in another order yields the same plan.
C4_AllocationInNameOrder ==
    AllocSucceeded
    => LET d    == args.department_counts
           plan == result.val
       IN  /\ \A k \in 1 .. Len(plan) : \A i \in 1 .. Len(plan[k].subnets) - 1 :
                  plan[k].subnets[i + 1].network_address = plan[k].subnets[i].last_address + 1
           /\ \A p1, p2 \in PlanPositions(plan) :
                  StrLess(plan[p1[1]].name, plan[p2[1]].name) =>
                     PlanBlock(plan, p1).last_address < PlanBlock(plan, p2).network_address
           /\ \A k \in 1 .. Len(plan) :
                  Len(plan[k].subnets) >= 1 =>
                     plan[k].subnets[1].network_address =
                        AllocParent.base
                          + CountBefore(d, plan[k].name) * plan[k].subnets[1].num_addresses
           /\ \A f \in Permutations(1 .. Len(d)) :
                  recommend_allocation(args.total_prefix, [ i \in 1 .. Len(d) |-> d[f[i]] ])
                     = result

\* C4 witness: the mapping was entered in descending name order and every
\* name got a block
C4_Witness ==
    /\ AllocSucceeded
    /\ Len(args.department_counts) = 3
    /\ \A i \in 1 .. 2 :
           StrLess(args.department_counts[i + 1].name, args.department_counts[i].name)
    /\ \A i \in 1 .. 3 : args.department_counts[i].count >= 1

\* C9: every planning request out of its domain fails with ValueError and
\* returns nothing: divide_into_subnets with count < 1 or a resulting
\* prefix above AddrBits, divide_by_prefix with new_prefix <= prefix or
\* above AddrBits, get_supernet with new_prefix >= prefix or negative, and
\* recommend_allocation when parent prefix + ceil(log2(total)) exceeds
\* AddrBits.
C9_OutOfDomainFails ==
    /\ (Returned("divide_into_subnets")
          /\ (\/ args.num_subnets < 1
              \/ \E b \in 0 .. AddrBits + 1 :
                    IsCeilLog2(b, args.num_subnets) /\ network.prefix + b > AddrBits))
       => FailedWithValueError
    /\ (Returned("divide_by_prefix")
          /\ (args.new_prefix <= network.prefix \/ args.new_prefix > AddrBits))
       => FailedWithValueError
    /\ (Returned("get_supernet")
          /\ (args.new_prefix >= network.prefix \/ args.new_prefix < 0))
       => FailedWithValueError
    /\ (Returned("recommend_allocation")
          /\ args.total_prefix \in ValidNetTexts
          /\ AllocTotal >= 1
          /\ \E b \in 0 .. AddrBits + 2 :
                IsCeilLog2(b, AllocTotal) /\ AllocParent.prefix + b > AddrBits)
       => FailedWithValueError

\* C9 witness: an allocation that needs a prefix beyond AddrBits was refused
C9_Witness ==
    /\ Returned("recommend_allocation")
    /\ args.total_prefix \in ValidNetTexts
    /\ AllocTotal >= 2
    /\ AllocParent.prefix + 1 > AddrBits
    /\ FailedWithValueError

(***************************************************************************)
(* Properties of overlap and of construction                               *)
(***************************************************************************)

\* last address of a block, said from its base and prefix
LastOf(n) == n.base + Pow2(AddrBits - n.prefix) - 1

\* the two ranges base .. last intersect
RangesIntersect(a, b) == a.base <= LastOf(b) /\ b.base <= LastOf(a)

\* b lies within a
IsSubnetOf(b, a) == b.prefix >= a.prefix /\ a.base <= b.base /\ LastOf(b) <= LastOf(a)

\* the network a text "addr/prefix" denotes once its host bits are cleared
TextNetwork(t) == Net(t.addr - (t.addr % Pow2(AddrBits - t.prefix)), t.prefix)

\* the overlap test returned the interval test on a and b, b overlaps a
\* alike, and a network overlaps itself and each of its subnets
OverlapHolds(a, b) ==
    /\ Succeeded
    /\ result.val = RangesIntersect(a, b)
    /\ result.val = overlaps(b, a).val
    /\ (IsSubnetOf(b, a) => result.val = TRUE)
    /\ (b = a => result.val = TRUE)

\* C11: a.overlaps(b) and a.overlaps_with(text of b) are true exactly when
\* a.base <= b.last and b.base <= a.last; the relation is symmetric, and
\* every network overlaps itself and each of its subnets.
C11_OverlapsIsIntervalTest ==
    /\ Returned("overlaps") => OverlapHolds(network, args.other)
    /\ (Returned("overlaps_with") /\ IsValidNetText(args.other_network))
       => OverlapHolds(network, TextNetwork(args.other_network))

\* C11 witness: overlaps_with was given, with host bits set, a proper subnet
\* of the network and answered true
C11_Witness ==
    /\ Returned("overlaps_with")
    /\ IsValidNetText(args.other_network)
    /\ args.other_network.addr # TextNetwork(args.other_network).base
    /\ IsSubnetOf(TextNetwork(args.other_network), network)
    /\ TextNetwork(args.other_network) # network
    /\ result = Ok(TRUE)

\* a text "addr/prefix" in range with a nonzero bit beyond the prefix
HostBitsSet(t) == IsValidNetText(t) /\ t.addr % Pow2(AddrBits - t.prefix) # 0

\* C12: with a bit set beyond the prefix, IPv6Network in strict mode fails
\* with ValueError; IPv6Network in non-strict mode and IPv6SubnetCalculator
\* succeed and hold the network whose base is the address with the bits
\* beyond the prefix cleared.
C12_StrictRejectsHostBits ==
    /\ (Returned("IPv6Network") /\ HostBitsSet(args.network))
       => IF args.strict THEN FailedWithValueError
          ELSE /\ result = Ok(TextNetwork(args.network))
               /\ network = TextNetwork(args.network)
    /\ (Returned("IPv6SubnetCalculator") /\ HostBitsSet(args.network))
       => /\ result = Ok(TextNetwork(args.network))
          /\ network = TextNetwork(args.network)

\* C12 witness: a strict construction was refused for its host bits
C12_Witness ==
    /\ Returned("IPv6Network")
    /\ HostBitsSet(args.network)
    /\ args.strict
    /\ FailedWithValueError

\* C12 witness of the other mode: the same kind of text was masked
C12_WitnessMasked ==
    /\ Returned("IPv6Network")
    /\ HostBitsSet(args.network)
    /\ ~args.strict
    /\ network = TextNetwork(args.network)

\* C13: network text with no '/' is rejected by IPv6Network(text) with
\* ValueError, by is_valid_ipv6_network with False and by
\* validate_ipv6_network with (False, message), even when the text is a
\* valid address.
C13_NoSlashRejected ==
    /\ (Returned("IPv6Network") /\ args.network.prefix = NoSlash)
       => FailedWithValueError
    /\ (Returned("is_valid_ipv6_network") /\ args.network.prefix = NoSlash)
       => result = Ok(FALSE)
    /\ (Returned("validate_ipv6_network") /\ args.network.prefix = NoSlash)
       => (Succeeded /\ result.val[1] = FALSE /\ result.val[2] # "None")

(***************************************************************************)
(* Properties of address texts                                             *)
(***************************************************************************)

\* the text has a '%'
HasZone(t) == \E i \in 1 .. Len(t) : t[i] = "%"

\* what follows the first '%' of the text
ZoneOf(t) ==
    LET i == CHOOSE k \in 1 .. Len(t) : t[k] = "%" /\ \A j \in 1 .. k - 1 : t[j] # "%"
    IN  [ k \in 1 .. Len(t) - i |-> t[i + k] ]

\* a zone the grammar allows: non-empty, with no '%' and no '/'
IsProperZone(z) == Len(z) >= 1 /\ \A i \in 1 .. Len(z) : z[i] \notin {"%", "/"}

\* the entry point accepted the text
Accepted ==
    \/ Returned("is_valid_ipv6") /\ result = Ok(TRUE)
    \/ Returned("validate_ipv6") /\ Succeeded /\ result.val[1] = TRUE
    \/ Returned("IPv6Address") /\ Succeeded

\* the entry point rejected the text: False, (False, message naming the
\* zone), or ValueError
RejectedForZone ==
    \/ Returned("is_valid_ipv6") /\ result = Ok(FALSE)
    \/ /\ Returned("validate_ipv6")
       /\ Succeeded
       /\ result.val[1] = FALSE
       /\ result.val[2] \in { "Zone ID cannot be empty", "Zone IDs are not allowed",
                               "Invalid zone ID format" }
    \/ Returned("IPv6Address") /\ FailedWithValueError

\* C14: a text whose '%' is followed by an empty zone is rejected by
\* is_valid_ipv6 (allow_zone=True), validate_ipv6 and IPv6Address, and a
\* text with a zone is accepted only if the zone is non-empty and holds no
\* '%' or '/'.
C14_EmptyZoneRejected ==
    /\ ((Returned("is_valid_ipv6") \/ Returned("validate_ipv6") \/ Returned("IPv6Address"))
          /\ HasZone(args.address) /\ ZoneOf(args.address) = <<>>)
       => RejectedForZone
    /\ (Accepted /\ HasZone(args.address)) => IsProperZone(ZoneOf(args.address))

\* the leading k bits of an address, k <= 16
TopBits(ip, k) == ip[1] \div Pow2(16 - k)

\* C15: get_address_type reports one category in the order Unspecified
\* (all-zero), Loopback (value 1), Link-Local (top 10 bits 1111111010),
\* Unique Local (top 7 bits 1111110), Multicast (top 8 bits 11111111),
\* Reserved, Global Unicast; :: is Unspecified and 2001:db8::1 is Global
\* Unicast.
C15_TypeByPriority ==
    Returned("get_address_type") =>
        LET ip == ipv6address._addr._ip
        IN  /\ Succeeded
            /\ IF ip = <<0, 0, 0, 0, 0, 0, 0, 0>> THEN result.val = "Unspecified"
               ELSE IF ip = <<0, 0, 0, 0, 0, 0, 0, 1>> THEN result.val = "Loopback"
               ELSE IF TopBits(ip, 10) = 1018 THEN result.val = "Link-Local"
               ELSE IF TopBits(ip, 7) = 126 THEN result.val = "Unique Local (ULA)"
               ELSE IF TopBits(ip, 8) = 255 THEN result.val = "Multicast"
               ELSE result.val \in {"Reserved", "Global Unicast"}
            /\ (ip = <<8193, 3512, 0, 0, 0, 0, 0, 1>> => result.val = "Global Unicast")

\* parsing the text yields an address equal to self, of the same value
ParsesTo(t, self) ==
    /\ IPv6Address_init(t).err = "none"
    /\ IPv6Address_init(t).val._addr._ip = self._addr._ip
    /\ IPv6Address_eq(IPv6Address_init(t).val, self) = Ok(TRUE)

\* the text is 8 groups of 4 lowercase hex digits, separated by ':'
IsFullForm(t) ==
    /\ Len(t) = 39
    /\ \A i \in 1 .. Len(t) :
          IF i % 5 = 0 THEN t[i] = ":"
          ELSE t[i] \in { "0", "1", "2", "3", "4", "5", "6", "7", "8", "9",
                          "a", "b", "c", "d", "e", "f" }

\* the part of a text before its first '%'
BeforeZone(t) ==
    IF HasZone(t) THEN [ k \in 1 .. Len(t) - Len(ZoneOf(t)) - 1 |-> t[k] ] ELSE t

\* C16: for every address value, parsing its compressed form and parsing
\* its exploded form both yield an address equal to it, and the exploded
\* form is exactly 8 colon-separated groups of exactly 4 lowercase hex
\* digits; the same holds of what compress_address and expand_address write.
C16_RoundTrip ==
    /\ Returned("compressed")
       => (Succeeded /\ ParsesTo(result.val, ipv6address))
    /\ Returned("exploded")
       => (Succeeded /\ ParsesTo(result.val, ipv6address) /\ IsFullForm(result.val))
    /\ (Returned("compress_address") /\ Succeeded)
       => ParsesTo(result.val, IPv6Address_init(args.address).val)
    /\ (Returned("expand_address") /\ Succeeded)
       => /\ ParsesTo(result.val, IPv6Address_init(args.address).val)
          /\ IsFullForm(BeforeZone(result.val))

\* C16 witness: the exploded form of an address built from a short text
\* with zero groups left out
C16_Witness ==
    /\ Returned("exploded")
    /\ Succeeded
    /\ Len(text) < 39
    /\ ipv6address._addr._ip[1] # 0
    /\ ipv6address._addr._ip[4] = 0
    /\ ipv6address._addr._ip[5] = 0
    /\ ipv6address._addr._ip[8] # 0
    /\ result.val # text

\* the text h is the value v in lowercase hex without leading zeros
IsShortHex(h, v) ==
    /\ Len(h) \in 1 .. 4
    /\ \A i \in 1 .. Len(h) : h[i] \in Range(LowerHex)
    /\ (Len(h) > 1 => h[1] # "0")
    /\ HexInt(h) = v

\* groups from .. from + k - 1 are all zero
IsZeroRun(ip, from, k) == \A i \in from .. from + k - 1 : ip[i] = 0

\* the runs of two or more zero groups, as pairs <<from, k>>
ZeroRuns(ip) ==
    { r \in (1 .. HEXTET_COUNT) \X (2 .. HEXTET_COUNT) :
        r[1] + r[2] - 1 <= HEXTET_COUNT /\ IsZeroRun(ip, r[1], r[2]) }

\* the longest of them, the leftmost when several are as long
LongestRun(ip) ==
    CHOOSE r \in ZeroRuns(ip) :
        \A q \in ZeroRuns(ip) : q[2] < r[2] \/ (q[2] = r[2] /\ q[1] >= r[1])

\* the text t writes groups from .. to of ip, each in short hex, joined by
\* ':' (the empty text when there is no group)
WritesGroups(t, ip, from, to) ==
    IF from > to THEN t = <<>>
    ELSE /\ Len(Split(t, ":")) = to - from + 1
         /\ \A i \in from .. to : IsShortHex(Split(t, ":")[i - from + 1], ip[i])

\* the text t is: the groups before the run, "::", the groups after it
WritesWithDoublecolon(t, ip, r) ==
    \E k \in 1 .. Len(t) - 1 :
        /\ t[k] = ":" /\ t[k + 1] = ":"
        /\ WritesGroups(SubSeq(t, 1, k - 1), ip, 1, r[1] - 1)
        /\ WritesGroups(SubSeq(t, k + 2, Len(t)), ip, r[1] + r[2], HEXTET_COUNT)

\* the canonical short form of ip
IsCanonicalShortForm(t, ip) ==
    IF ZeroRuns(ip) # {} THEN WritesWithDoublecolon(t, ip, LongestRun(ip))
    ELSE WritesGroups(t, ip, 1, HEXTET_COUNT)

\* C17: the compressed form replaces by '::' the longest run of zero
\* groups, the leftmost when several tie, never a run of one zero group
\* (written '0'); the all-zero address is '::'; every other group is in
\* lowercase without leading zeros.
C17_CompressedIsCanonical ==
    /\ (Returned("compress_address") /\ Succeeded)
       => /\ IsCanonicalShortForm(BeforeZone(result.val),
                                  IPv6Address_init(args.address).val._addr._ip)
          /\ (IPv6Address_init(args.address).val._addr._ip = <<0, 0, 0, 0, 0, 0, 0, 0>>
                => BeforeZone(result.val) = <<":", ":">>)
    /\ Returned("compressed")
       => (Succeeded /\ IsCanonicalShortForm(result.val, ipv6address._addr._ip))

\* C17 witness: two runs of two zero groups tie, and a single zero group
\* stands beside them: 2001:0:0:a0:0:0:10:0 is written 2001::a0:0:0:10:0
C17_Witness ==
    /\ Returned("compress_address")
    /\ Succeeded
    /\ Len(args.address) = 39
    /\ result.val = <<"2", "0", "0", "1", ":", ":", "a", "0", ":", "0", ":", "0", ":",
                      "1", "0", ":", "0">>

\* C18: compress_address is idempotent on every input it accepts, with or
\* without a zone suffix: compressing its result gives the result again, and
\* compressing the expanded input gives the same result.
C18_CompressIdempotent ==
    (Returned("compress_address") /\ Succeeded)
       => /\ compress_address(result.val) = result
          /\ expand_address(args.address).err = "none"
          /\ compress_address(expand_address(args.address).val) = result

\* C18 witness: a full-form text with the zone eth0 was compressed
C18_Witness ==
    /\ Returned("compress_address")
    /\ Succeeded
    /\ HasZone(args.address)
    /\ ZoneOf(args.address) = <<"e", "t", "h", "0">>
    /\ IsFullForm(BeforeZone(args.address))
    /\ result.val # args.address

\* the text is a valid address followed by '%' and a non-empty zone
HasProperZoneSuffix(t) ==
    /\ HasZone(t)
    /\ Len(ZoneOf(t)) >= 1
    /\ IPv6Address_init(BeforeZone(t)).err = "none"

\* the text written ends in '%' and the zone of the input, after the text
\* written for the same input without its zone
KeepsZone(written, without, t) ==
    /\ HasZone(written)
    /\ ZoneOf(written) = ZoneOf(t)
    /\ BeforeZone(written) = without
    /\ written = without \o <<"%">> \o ZoneOf(t)

\* C19: for a valid address text with a zone suffix '%z', the zone is kept
\* verbatim: IPv6Address holds it as zone_id, and str(IPv6Address),
\* compress_address and expand_address end in '%z'; the numeric value and
\* the compressed property are those of the text without the suffix.
C19_ZoneKeptVerbatim ==
    /\ (Returned("IPv6Address") /\ HasProperZoneSuffix(args.address))
       => /\ Succeeded
          /\ result.val.zone_id = ZoneOf(args.address)
          /\ result.val._addr = IPv6Address_init(BeforeZone(args.address)).val._addr
          /\ ipv6address = result.val
    /\ (Returned("str") /\ HasProperZoneSuffix(text))
       => /\ Succeeded
          /\ KeepsZone(result.val, compressed(IPv6Address_init(BeforeZone(text)).val).val, text)
    /\ (Returned("compressed") /\ HasProperZoneSuffix(text))
       => /\ Succeeded
          /\ ~HasZone(result.val)
          /\ result = compressed(IPv6Address_init(BeforeZone(text)).val)
    /\ (Returned("compress_address") /\ HasProperZoneSuffix(args.address))
       => /\ Succeeded
          /\ KeepsZone(result.val, compress_address(BeforeZone(args.address)).val, args.address)
    /\ (Returned("expand_address") /\ HasProperZoneSuffix(args.address))
       => /\ Succeeded
          /\ KeepsZone(result.val, expand_address(BeforeZone(args.address)).val, args.address)

\* C19 witness: the address built from the full form of fe80::1 with the
\* zone eth0 is written "fe80::1%eth0"
C19_Witness ==
    /\ Returned("str")
    /\ IsFullForm(BeforeZone(text))
    /\ ipv6address.zone_id = <<"e", "t", "h", "0">>
    /\ result = Ok(<<"f", "e", "8", "0", ":", ":", "1", "%", "e", "t", "h", "0">>)

\* the address the other text of a comparison denotes
OtherAddress == IPv6Address_init(args.other).val

\* C20: equality of two IPv6Address values depends on the numeric value
\* only: the same value compares equal whatever the textual form and the
\* zones, and different values never compare equal.
C20_EqualityByValue ==
    Returned("eq") =>
        /\ Succeeded
        /\ result.val = (ipv6address._addr._ip = OtherAddress._addr._ip)

\* C20 witness: the same value written in another form and with another
\* zone compared equal
C20_Witness ==
    /\ Returned("eq")
    /\ result = Ok(TRUE)
    /\ ipv6address.zone_id = <<"e", "t", "h", "0">>
    /\ OtherAddress.zone_id = <<"e", "t", "h", "1">>
    /\ BeforeZone(args.other) # BeforeZone(text)

\* C20 witness of the other case: different values compared unequal
C20_WitnessDifferent ==
    /\ Returned("eq")
    /\ result = Ok(FALSE)
    /\ ipv6address._addr._ip # OtherAddress._addr._ip

(***************************************************************************)
(* Properties of mac_to_ipv6_link_local                                    *)
(***************************************************************************)

\* the text without the separators ':', '-' and '.'
MacDigits(t) == SelectSeq(t, LAMBDA c : c \notin {":", "-", "."})

\* a MAC of six octets: twelve hex digits once the separators are removed
IsMacText(t) == Len(MacDigits(t)) = 12 /\ Range(MacDigits(t)) \subseteq HEX_DIGITS

\* octet i of the MAC, i in 0 .. 5
MacOctet(t, i) == HexInt(SubSeq(MacDigits(t), 2 * i + 1, 2 * i + 2))

\* the octet with bit 1 inverted
FlipBit1(v) == IF v % 4 >= 2 THEN v - 2 ELSE v + 2

\* fe80:0:0:0 and the EUI-64 interface identifier of the MAC
Eui64Groups(t) ==
    << 65152, 0, 0, 0,
       256 * FlipBit1(MacOctet(t, 0)) + MacOctet(t, 1),
       256 * MacOctet(t, 2) + 255,
       256 * 254 + MacOctet(t, 3),
       256 * MacOctet(t, 4) + MacOctet(t, 5) >>

\* C21: for every MAC of six octets m0..m5, mac_to_ipv6_link_local returns
\* the address whose high 64 bits are fe80:0000:0000:0000 and whose low 64
\* bits are the octets (m0 XOR 0x02), m1, m2, 0xff, 0xfe, m3, m4, m5,
\* whichever separator (':', '-', '.' or none) the text uses.
C21_MacToEui64 ==
    (Returned("mac_to_ipv6_link_local") /\ IsMacText(args.mac))
        => /\ Succeeded
           /\ LibIPv6Address(result.val).err = "none"
           /\ LibIPv6Address(result.val).val._ip = Eui64Groups(args.mac)

\* "a5fd.2c3d.4e5f"-like input: a MAC written with '.', whose first octet has
\* the universal/local bit clear, has been converted
C21_Witness ==
    /\ Returned("mac_to_ipv6_link_local")
    /\ IsMacText(args.mac)
    /\ "." \in Range(args.mac)
    /\ MacOctet(args.mac, 0) = 165
    /\ MacOctet(args.mac, 5) = 95
    /\ Succeeded
    /\ LibIPv6Address(result.val).val._ip[5] = 256 * 167 + MacOctet(args.mac, 1)

\* C22: mac_to_ipv6_link_local fails with ValueError for every input whose
\* text, after removing ':', '-' and '.', is not exactly 12 hexadecimal
\* digits; it never returns an address for a text holding a non-hex
\* character such as '+', '_', a space or 'x'.
C22_NonHexRejected ==
    (Returned("mac_to_ipv6_link_local") /\ ~IsMacText(args.mac))
        => FailedWithValueError

(***************************************************************************)
(* Properties of the generators and of reverse_pointer                     *)
(***************************************************************************)

\* the field the call works with: the one supplied, or the one drawn
UlaField(supplied, drawn) == IF supplied = NoText THEN drawn ELSE supplied

\* n hex characters
IsHexOfLen(t, n) == Len(t) = n /\ Range(t) \subseteq HEX_DIGITS

\* fd, the 40 bits of the global id, the 16 bits of the subnet id and the 64
\* bits of the interface id, as eight groups
UlaGroups(g, s, i) ==
    << 256 * 253 + HexInt(SubSeq(g, 1, 2)), HexInt(SubSeq(g, 3, 6)), HexInt(SubSeq(g, 7, 10)),
       HexInt(s),
       HexInt(SubSeq(i, 1, 4)), HexInt(SubSeq(i, 5, 8)), HexInt(SubSeq(i, 9, 12)),
       HexInt(SubSeq(i, 13, 16)) >>

\* C23: for every global_id of 10 hex characters, subnet_id of 4 and
\* interface_id of 16 (supplied or drawn), generate_unique_local succeeds
\* and returns a valid address whose high byte is fd and whose remaining 120
\* bits are the global id, the subnet id and the interface id in that order;
\* a supplied field of any other length makes the call fail.
C23_UniqueLocalLayout ==
    Returned("generate_unique_local") =>
        LET g == UlaField(args.global_id, args.token_hex[5])
            s == UlaField(args.subnet_id, args.token_hex[2])
            i == UlaField(args.interface_id, args.token_hex[8])
        IN  /\ (IsHexOfLen(g, 10) /\ IsHexOfLen(s, 4) /\ IsHexOfLen(i, 16))
                  => /\ Succeeded
                     /\ LibIPv6Address(result.val).err = "none"
                     /\ LibIPv6Address(result.val).val._ip = UlaGroups(g, s, i)
            /\ (Len(g) # 10 \/ Len(s) # 4 \/ Len(i) # 16) => FailedWithValueError

\* nibble k of the value, nibble 0 being the lowest
Nibble(ip, k) == (ip[HEXTET_COUNT - (k \div 4)] \div Pow2(4 * (k % 4))) % 16

\* C24: for every valid address, reverse_pointer returns the 32 nibbles of
\* the fully expanded address in reverse order (lowest nibble first), each
\* separated by '.', followed by '.ip6.arpa'; the result is a function of
\* the address value alone, so neither the zone suffix nor the spelling of
\* the input changes it.
C24_ReversePointerNibbles ==
    (Returned("reverse_pointer") /\ LibIPv6Address(args.address).err = "none")
        => /\ Succeeded
           /\ Len(result.val) = 72
           /\ \A k \in 0 .. 31 :
                result.val[2 * k + 1]
                    = LowerHex[Nibble(LibIPv6Address(args.address).val._ip, k) + 1]
           /\ \A k \in 1 .. 31 : result.val[2 * k] = "."
           /\ SubSeq(result.val, 64, 72) = <<".", "i", "p", "6", ".", "a", "r", "p", "a">>

\* the name of an address written short and with a zone, whose lowest and
\* highest nibbles differ, has been returned
C24_Witness ==
    /\ Returned("reverse_pointer")
    /\ HasZone(args.address)
    /\ Len(args.address) < 39
    /\ LibIPv6Address(args.address).err = "none"
    /\ Succeeded
    /\ result.val[1] = "1"
    /\ result.val[63] = "f"

\* the address part and the prefix length of a prefix text; 64 when the
\* text has no '/'
GivenBase(t) == Split(t, "/")[1]

GivenPrefixLen(t) == IF "/" \in Range(t) THEN DecimalInt(Split(t, "/")[2]) ELSE 64

\* the text names a network: an address, then nothing or '/' and a length
\* of 0 .. 128
IsNetworkText(t) ==
    /\ Len(Split(t, "/")) <= 2
    /\ LibIPv6Address(GivenBase(t)).err = "none"
    /\ "/" \in Range(t) =>
          /\ Split(t, "/")[2] # <<>>
          /\ Range(Split(t, "/")[2]) \subseteq Range(DecimalDigits)
          /\ GivenPrefixLen(t) <= 128

\* a and b agree on their p leading bits
SameLeadingBits(a, b, p) ==
    \A k \in 1 .. HEXTET_COUNT :
        LET kept == IF p >= 16 * k THEN 16 ELSE IF p <= 16 * (k - 1) THEN 0 ELSE p - 16 * (k - 1)
        IN  a[k] \div Pow2(16 - kept) = b[k] \div Pow2(16 - kept)

\* C25: for every prefix text that names a network and every random draw,
\* generate_random_ipv6 returns an address contained in the given network
\* (its first prefix-length bits equal the network's base bits); a prefix
\* text without '/' is treated as a /64, the 64 trailing bits being the
\* ones drawn.
C25_RandomInNetwork ==
    Returned("generate_random_ipv6") =>
        /\ IsNetworkText(args.prefix) <=> Succeeded
        /\ Succeeded =>
              /\ LibIPv6Address(result.val).err = "none"
              /\ SameLeadingBits(LibIPv6Address(result.val).val._ip,
                                 LibIPv6Address(GivenBase(args.prefix)).val._ip,
                                 GivenPrefixLen(args.prefix))
              /\ "/" \notin Range(args.prefix) =>
                    \A k \in 5 .. 8 :
                        LibIPv6Address(result.val).val._ip[k] = args.token_bytes[k]

\* "2001:db8::1", with no '/', and the draw of all ones gave
\* 2001:db8::ffff:ffff:ffff:ffff
C25_Witness ==
    /\ Returned("generate_random_ipv6")
    /\ "/" \notin Range(args.prefix)
    /\ args.token_bytes[1] = 65535
    /\ Succeeded
    /\ LibIPv6Address(result.val).val._ip
           = <<8193, 3512, 0, 0, 65535, 65535, 65535, 65535>>

\* a /63 over a base with host bits set: the draw of all ones fills the 65
\* trailing bits and no more
C25_WitnessOddPrefix ==
    /\ Returned("generate_random_ipv6")
    /\ "/" \in Range(args.prefix)
    /\ Succeeded
    /\ GivenPrefixLen(args.prefix) = 63
    /\ LibIPv6Address(result.val).val._ip
           = <<8193, 3512, 1, 3, 65535, 65535, 65535, 65535>>

(***************************************************************************)
(* Properties of the calls as a whole                                      *)
(***************************************************************************)

\* the text is an address: its groups denote a value and it has no '%', or
\* one '%' followed by a non-empty zone
IsValidAddrText(t) ==
    /\ t.addr \in Addresses
    /\ Len(t.zones) <= 1
    /\ \A k \in 1 .. Len(t.zones) : t.zones[k] # ""

\* C26: contains_address, IPv6Network.contains and overlaps_with never raise
\* on malformed text: for every argument that is not a valid address
\* (respectively network) they return False.
C26_MalformedGivesFalse ==
    /\ (Returned("contains") \/ Returned("contains_address"))
          => /\ Succeeded
             /\ ~IsValidAddrText(args.address) => result.val = FALSE
    /\ Returned("overlaps_with")
          => /\ Succeeded
             /\ ~IsValidNetText(args.other_network) => result.val = FALSE

\* C27: no operation mutates its receiver or inputs: through any sequence of
\* calls of get_info, divide_into_subnets, divide_by_prefix, get_supernet,
\* contains_address, overlaps_with, get_summary_address and
\* recommend_allocation, successful or failing, the calculator's network
\* (base and prefix) stays what it was, and the caller's list or mapping is
\* left as it was passed.
C27_NothingMutated ==
    [][ /\ network' = network
        /\ (pc' = "done" /\ op' = "get_summary_address")
              => args'.left = args'.other_networks
        /\ (pc' = "done" /\ op' = "recommend_allocation")
              => args'.left = args'.department_counts ]_vars

\* get_supernet has returned a network wider than the receiver's, which is
\* still the one constructed
C27_Witness ==
    /\ Returned("get_supernet")
    /\ Succeeded
    /\ result.val.prefix_length < network.prefix
    /\ network.prefix = AddrBits - 1

\* a failing get_summary_address has returned, its list as it was passed
C27_WitnessFailing ==
    /\ Returned("get_summary_address")
    /\ FailedWithValueError
    /\ Len(args.other_networks) >= 1
    /\ args.left = args.other_networks


\* the blocks handed out by a plan, all names together
RECURSIVE PlanSize(_)
PlanSize(plan) == IF plan = <<>> THEN 0 ELSE Len(Head(plan).subnets) + PlanSize(Tail(plan))

\* C28: in recommend_allocation, when every requested count is non-negative
\* and the total is at least 1 with parent prefix + ceil(log2(total)) <= 128
\* (AddrBits), the running index never exceeds the number of generated
\* children, so the 'Not enough subnets' failure cannot occur and every name
\* of the input mapping appears in the result; a mapping whose total is 0
\* (the empty mapping included) fails instead of returning an empty plan.
C28_TotalAlwaysFits ==
    (Returned("recommend_allocation") /\ IsValidNetText(args.total_prefix))
        => /\ \A b \in 0 .. AddrBits :
                 ( /\ \A i \in 1 .. Len(args.department_counts) :
                         args.department_counts[i].count >= 0
                   /\ AllocTotal >= 1
                   /\ IsCeilLog2(b, AllocTotal)
                   /\ AllocParent.prefix + b <= AddrBits )
                 => /\ Succeeded
                    /\ PlanSize(result.val) <= Pow2(b)
                    /\ { result.val[k].name : k \in 1 .. Len(result.val) }
                          = { args.department_counts[i].name :
                                i \in 1 .. Len(args.department_counts) }
           /\ AllocTotal = 0 => FailedWithValueError

\* three blocks were asked for by two names, one short of the four children
\* generated, and both names were served
C28_Witness ==
    /\ Returned("recommend_allocation")
    /\ IsValidNetText(args.total_prefix)
    /\ Len(args.department_counts) = 2
    /\ AllocTotal = 3
    /\ AllocParent.prefix + 2 <= AddrBits
    /\ Succeeded
    /\ PlanSize(result.val) = 3

\* the empty mapping was refused
C28_WitnessEmpty ==
    /\ Returned("recommend_allocation")
    /\ IsValidNetText(args.total_prefix)
    /\ args.department_counts = <<>>
    /\ FailedWithValueError

\* C29: is_valid_ipv6 and validate_ipv6 decide the same set of inputs: for
\* every text and every allow_zone value, is_valid_ipv6(text, allow_zone)
\* equals the first component of validate_ipv6(text, allow_zone), texts
\* with an empty zone or with more than one '%' included.
C29_ValidatorsAgree ==
    /\ Returned("is_valid_ipv6")
          => result.val = validate_ipv6(args.address, args.allow_zone).val[1]
    /\ Returned("validate_ipv6")
          => result.val[1] = is_valid_ipv6(args.address, args.allow_zone).val

(***************************************************************************)
(* Properties of scan_ports                                                *)
(***************************************************************************)

\* how many items of the list are about port p
CountOfPort(l, p) == Cardinality({ i \in 1 .. Len(l) : l[i] = p })

\* every submitted scan has ended
AllScansFinished ==
    /\ Len(futures) = Len(args.ports)
    /\ \A i \in 1 .. Len(futures) : futures[i].state = "finished"

\* C30: scan_ports returns exactly one PortScanResult per requested port,
\* ordered by ascending port number, whatever order the worker threads
\* complete in, and it returns only after every submitted scan has
\* finished.  (A port is a number in 0 .. 65535.)
C30_OneResultPerPortAscending ==
    Returned("scan_ports") =>
        /\ AllScansFinished
        /\ (\A i \in 1 .. Len(args.ports) : args.ports[i] \in 0 .. 65535)
              => /\ Succeeded
                 /\ Len(result.val) = Len(args.ports)
                 /\ \A p \in PortArgs :
                        CountOfPort([ k \in 1 .. Len(result.val) |-> result.val[k].port ], p)
                            = CountOfPort(args.ports, p)
                 /\ \A i, j \in 1 .. Len(result.val) :
                        i < j => result.val[i].port <= result.val[j].port
                 /\ \A k \in 1 .. Len(result.val) :
                        \E i \in 1 .. Len(futures) :
                            futures[i].outcome = Ok(result.val[k])

\* three scans ended in descending order of port, the list asked for them
\* in yet another order, and the results came back ascending
C30_Witness ==
    /\ Returned("scan_ports")
    /\ Succeeded
    /\ args.max_workers = 2
    /\ Len(results) = 3
    /\ results[1].port > results[3].port
    /\ args.ports[1] < args.ports[2]
    /\ result.val[1].port < result.val[3].port
    /\ result.val[1].is_open # result.val[2].is_open

\* a scan raised while another was still waiting to start; the call ended
\* after that one had run too
C30_WitnessRaised ==
    /\ Returned("scan_ports")
    /\ result = OverflowError
    /\ args.max_workers = 1
    /\ Len(args.ports) = 2
    /\ args.ports[1] = 70000
    /\ futures[2].state = "finished"
    /\ ~futures[2].yielded

====
